---- MODULE Spec2Model ----
(***************************************************************************)
(* The hook execution coordinator of coding/claude/scripts/hooks.py:       *)
(* several operating-system processes, one per hook event, that share an   *)
(* execution history file, per-fingerprint lock files, a log file and the  *)
(* lock file of the log.  Every system call that touches shared state is   *)
(* one step of a process.                                                  *)
(*                                                                         *)
(* Time is counted in ticks of 1/TicksPerSecond second.  Strings are TLA+  *)
(* strings; a line of the history file is the sequence of its tokens, the  *)
(* token ":" being the colon character.                                    *)
(*                                                                         *)
(* The clipboard monitor of scripts/yt_dlp_monitor.py is modelled next to  *)
(* it: the merge of the command-line options into the default options,     *)
(* the polling loop, and the normalization of a downloaded file.  A        *)
(* command-line token is the sequence of its first character and the rest  *)
(* of it; a dict is the sequence of its items in insertion order.          *)
(***************************************************************************)
EXTENDS Integers, Sequences, FiniteSets, TLC

\* ------------------------------------------------------------- bounds

NumProcs == 3
Concurrent == 2
MaxFaults == 1
ReleaseFaults == 2
MaxTicks == 1
TicksPerSecond == 10
MaxRegistrations == 3
MaxOverrides == 3
MaxPolls == 3
NumFiles == 2

\* --------------------------------------------------- program constants

DUPLICATE_WINDOW == 5
EXIT_FATAL == 2

Procs == 1..NumProcs
WindowTicks == DUPLICATE_WINDOW * TicksPerSecond
MaxClock == MaxTicks * (WindowTicks + 1)

\* HookEventName
PRE_TOOL_USE == "PreToolUse"
POST_TOOL_USE == "PostToolUse"
NOTIFICATION == "Notification"
STOP == "Stop"
SUBAGENT_STOP == "SubagentStop"

\* A field the JSON object does not carry (dict.get gives its default).
Absent == "<absent>"

\* Python truthiness of a text read with json_data.get(field).
Truthy(v) == v # Absent /\ v # ""

\* json_data.get(field, "")
GetOrEmpty(v) == IF v = Absent THEN "" ELSE v

\* ------------------------------------------------- execution identity

\* hashlib.sha256(content).hexdigest()[:16]: one token of hexadecimal
\* digits (it holds no colon), taken to be collision-free on its text.
Sha256Hex16(content) == "sha256(" \o content \o ")"

GenerateExecutionId(session_id, hook_event_name, tool_name) ==
    LET base_content == session_id \o ":" \o hook_event_name
        tool_content == ":" \o tool_name
    IN  Sha256Hex16(base_content \o tool_content)

\* Mutant of ContextId: the identity also depends on the tool's input.
ContextIdOfPayload(e) ==
    GenerateExecutionId(GetOrEmpty(e.session_id),
                        GetOrEmpty(e.hook_event_name),
                        GetOrEmpty(e.tool_name) \o ToString(e.file_path))

\* ExecutionContext.__init__ on the parsed envelope e.
ContextId(e) ==
    GenerateExecutionId(GetOrEmpty(e.session_id),
                        GetOrEmpty(e.hook_event_name),
                        GetOrEmpty(e.tool_name))

\* ---------------------------------------------------- history records

\* repr of a float timestamp, and float() of a text.
FormatFloat(t) == ToString(t)
IsFloat(s) == \E t \in 0..MaxClock : FormatFloat(t) = s
ParseFloat(s) == CHOOSE t \in 0..MaxClock : FormatFloat(t) = s

\* f"{context.execution_id}:{context.timestamp}\n"
HistoryLine(execution_id, timestamp) ==
    <<execution_id, ":", FormatFloat(timestamp)>>

\* A byte sequence that is no text in the locale's encoding.
Undecodable == "\\xff"

\* Index of the first colon of a line, 0 when it has none.
FirstColon(line) ==
    IF \E i \in 1..Len(line) : line[i] = ":"
    THEN CHOOSE i \in 1..Len(line) :
            line[i] = ":" /\ \A j \in 1..(i - 1) : line[j] # ":"
    ELSE 0

\* Mutant of LineIsDuplicate: a record exactly five seconds old counts.
LineIsDuplicateInclusive(line, execution_id, current_time) ==
    LET k == FirstColon(line)
        exec_id == SubSeq(line, 1, k - 1)
        timestamp == SubSeq(line, k + 1, Len(line))
    IN  /\ line # <<>>
        /\ k # 0
        /\ Len(timestamp) = 1
        /\ IsFloat(timestamp[1])
        /\ exec_id = <<execution_id>>
        /\ current_time - ParseFloat(timestamp[1]) <= WindowTicks

\* One pass of the loop body of _is_duplicate_execution on one line: TRUE
\* when the line makes the check return True.  A ValueError of split's
\* unpacking or of float() is suppressed and the line skipped.
LineIsDuplicate(line, execution_id, current_time) ==
    LET k == FirstColon(line)
        exec_id == SubSeq(line, 1, k - 1)
        timestamp == SubSeq(line, k + 1, Len(line))
    IN  /\ line # <<>>
        /\ k # 0
        /\ Len(timestamp) = 1
        /\ IsFloat(timestamp[1])
        /\ exec_id = <<execution_id>>
        /\ current_time - ParseFloat(timestamp[1]) < WindowTicks

\* The file iterator decodes the file as it reads it: lines 1..n decode.
Decodable(lines, n) ==
    \A i \in 1..n : \A j \in 1..Len(lines[i]) : lines[i][j] # Undecodable

\* _is_duplicate_execution: "dup", "nodup" or "raise".  `exists` is
\* history_file.exists(); `readable` is the number of lines read before a
\* read fails with OSError (Len(lines) when none does).  The file is read
\* and decoded a buffer at a time: `ahead` tells whether the lines that are
\* read were in one buffer, decoded before the first of them is looked at,
\* or each of them is decoded when the loop reaches it.  The
\* UnicodeDecodeError is a ValueError raised by the iterator, outside the
\* suppress(ValueError) of the loop body, and no OSError.
IsDuplicateExecution(exists, lines, readable, ahead, execution_id, current_time) ==
    IF ~exists THEN "nodup"
    ELSE IF ahead /\ ~Decodable(lines, readable) THEN "raise"
    ELSE IF \E i \in 1..readable :
                /\ Decodable(lines, i)
                /\ LineIsDuplicate(lines[i], execution_id, current_time)
         THEN "dup"
    ELSE IF ~Decodable(lines, readable) THEN "raise"
         ELSE "nodup"

\* ------------------------------------------------------- lock files

NoInode == <<>>

\* f"execution_{context.execution_id}.lock" under .claude/log
LockFileName(execution_id) == "execution_" \o execution_id \o ".lock"
LogLockName == "hooks.log.lock"

\* f"{self.context.process_id}:{self.context.timestamp}"
ProcessInfo(p, timestamp) == ToString(p) \o ":" \o FormatFloat(timestamp)

\* ---------------------------------------------------- handler registry

BASH == "Bash"
READ == "Read"
EDIT == "Edit"
MULTI_EDIT == "MultiEdit"
WRITE == "Write"
NOTEBOOK_READ == "NotebookRead"
NOTEBOOK_EDIT == "NotebookEdit"

\* _setup_default_handlers: tool name -> handler instance
DefaultHandlers ==
    [t \in {BASH, READ, EDIT, MULTI_EDIT, WRITE, NOTEBOOK_READ, NOTEBOOK_EDIT} |->
        IF t = BASH THEN "bash_handler" ELSE "file_handler"]

\* Mutant of GetHandler: a tool with no binding gets the file handler.
GetHandlerDefaultsToFile(handlers, tool_name) ==
    IF tool_name \in DOMAIN handlers THEN handlers[tool_name] ELSE "file_handler"

\* get_handler
GetHandler(handlers, tool_name) ==
    IF tool_name \in DOMAIN handlers THEN handlers[tool_name] ELSE "NoOpHandler"

\* _is_python_file: a path is the sequence of its parts, the last one its
\* suffix; the empty sequence is the empty or missing path.
IsPythonFile(file_path) ==
    file_path[Len(file_path)] \in {".py", ".pyi"}

\* Mutant of RunsRuff: every tool of the file handler starts the commands.
RunsRuffForFileTools(e) ==
    /\ e.tool_name \in {READ, WRITE, EDIT, MULTI_EDIT, NOTEBOOK_READ, NOTEBOOK_EDIT}
    /\ e.file_path # <<>>
    /\ IsPythonFile(e.file_path)

\* The condition under which FileOperationHandler.handle_after calls
\* run_ruff_processing.
RunsRuff(e) ==
    /\ e.tool_name \in {WRITE, EDIT, MULTI_EDIT}
    /\ e.file_path # <<>>
    /\ IsPythonFile(e.file_path)


\* ------------------------------------------- yt_dlp_monitor: options

\* A command-line token: "-f" is <<"-", "f">>, "--ppa" is <<"-", "-ppa">>,
\* "best" is <<"best">>, "-" is <<"-">>, the empty string is <<>>.
StartsWithDash(token) == Len(token) > 0 /\ token[1] = "-"

\* YT_DLP_OPTIONS
YT_DLP_OPTIONS ==
    << <<"-", "-ignore-config">>,
       <<"-", "S">>, <<"codec:avc:aac,res:1080,fps:60,hdr:sdr">>,
       <<"-", "f">>, <<"bv+ba">>,
       <<"-", "P">>, <<"~/Downloads/yt_dlp">>,
       <<"-", "o">>, <<"%(title)s_%(id)s">>,
       <<"-", "-ppa">>, <<"Merger+ffmpeg_o1:-map_metadata -1">>,
       <<"-", "-ppa">>, <<"AudioNormalize:-t -14.0 -c:a aac -b:a 128k -mn -cn -sn -pr">>,
       <<"-", "-remote-components">>, <<"ejs:github">>,
       <<"-", "-cookies-from-browser">>, <<"firefox">>,
       <<"-", "-download-archive">>, <<"~/projects/ytdlp-archive/downloaded.txt">> >>

\* An item of an OptionDict: the value is None or the list `values`.
Item(key, none, values) == [key |-> key, none |-> none, values |-> values]

\* The place of `key` in the dict, 0 when it is not a key of it.
KeyIndex(dict, key) ==
    IF \E i \in DOMAIN dict : dict[i].key = key
    THEN CHOOSE i \in DOMAIN dict : dict[i].key = key
    ELSE 0

\* dict[key] = value: a key the dict has keeps its place.
DictSet(dict, item) ==
    IF KeyIndex(dict, item.key) = 0
    THEN Append(dict, item)
    ELSE [dict EXCEPT ![KeyIndex(dict, item.key)] = item]

\* del dict[key]
DictDel(dict, key) ==
    LET Other(item) == item.key # key IN SelectSeq(dict, Other)

\* The loop of _parse_option_list from index i on (counted from 1), the
\* dict so far being result.  result.setdefault(opt, []) returns the None
\* already stored for opt, and None.append raises AttributeError.
RECURSIVE ParseFrom(_, _, _)
ParseFrom(options, i, result) ==
    IF i > Len(options)
    THEN [raised |-> FALSE, dict |-> result]
    ELSE LET opt == options[i]
             k == KeyIndex(result, opt)
         IN  IF StartsWithDash(opt)
             THEN IF i + 1 <= Len(options) /\ ~StartsWithDash(options[i + 1])
                  THEN IF k # 0 /\ result[k].none
                       THEN [raised |-> TRUE, dict |-> result]
                       ELSE ParseFrom(options, i + 2,
                                DictSet(result,
                                    Item(opt, FALSE,
                                         Append(IF k = 0 THEN <<>>
                                                ELSE result[k].values,
                                                options[i + 1]))))
                  ELSE ParseFrom(options, i + 1,
                                 DictSet(result, Item(opt, TRUE, <<>>)))
             ELSE ParseFrom(options, i + 1, result)

\* _parse_option_list
ParseOptionList(options) == ParseFrom(options, 1, <<>>)

\* _dict_to_option_list
RECURSIVE DictToOptionList(_)
DictToOptionList(options) ==
    IF options = <<>> THEN <<>>
    ELSE LET item == Head(options)
             RECURSIVE Pairs(_)
             Pairs(values) ==
                 IF values = <<>> THEN <<>>
                 ELSE <<item.key, Head(values)>> \o Pairs(Tail(values))
         IN  (IF item.none THEN <<item.key>> ELSE Pairs(item.values))
             \o DictToOptionList(Tail(options))

\* One pass of the loop of merge_yt_dlp_options: `del base[key]` for an
\* option given without a value that base has, `base[key] = value` otherwise.
MergeItem(base, item) ==
    IF item.none /\ KeyIndex(base, item.key) # 0
    THEN DictDel(base, item.key)
    ELSE DictSet(base, item)

\* The loop of merge_yt_dlp_options over override_dict.items()
RECURSIVE MergeItems(_, _)
MergeItems(base, override_dict) ==
    IF override_dict = <<>> THEN base
    ELSE MergeItems(MergeItem(base, Head(override_dict)), Tail(override_dict))

\* merge_yt_dlp_options: what it returns, or the exception it raises.
MergeYtDlpOptions(overrides) ==
    LET base == ParseOptionList(YT_DLP_OPTIONS)
        override_dict == ParseOptionList(overrides)
    IN  IF base.raised \/ override_dict.raised
        THEN [outcome |-> "AttributeError", options |-> <<>>]
        ELSE [outcome |-> "returned",
              options |-> DictToOptionList(MergeItems(base.dict,
                                                      override_dict.dict))]

\* --------------------------------------------- yt_dlp_monitor: URLs

\* A clipboard text is the sequence of its tokens: words, ":", "//" and
\* "/".  str.lower() on the words the texts are made of.
Lower(word) ==
    CASE word = "HTTP" -> "http"
      [] word = "HTTPS" -> "https"
      [] OTHER -> word

Separators == {":", "//", "/"}

\* urlparse(text): the scheme is the word before a ":" in second place, in
\* lower case; the netloc is what follows a "//" that stands first after
\* it, up to the next "/"; a netloc with "[" and no "]" raises ValueError.
Urlparse(text) ==
    LET has_scheme == Len(text) >= 2 /\ text[2] = ":" /\ text[1] \notin Separators
        scheme == IF has_scheme THEN Lower(text[1]) ELSE ""
        rest == IF has_scheme THEN SubSeq(text, 3, Len(text)) ELSE text
        netloc == IF Len(rest) >= 2 /\ rest[1] = "//" /\ rest[2] \notin Separators
                  THEN rest[2] ELSE ""
    IN  [raised |-> netloc = "[bad", scheme |-> scheme, netloc |-> netloc]

\* Mutant of IsValidUrl: any scheme will do.
IsValidUrlAnyScheme(text) ==
    LET parsed == Urlparse(text)
    IN  ~parsed.raised /\ parsed.scheme # "" /\ parsed.netloc # ""

\* is_valid_url
IsValidUrl(text) ==
    LET parsed == Urlparse(text)
    IN  ~parsed.raised /\ parsed.scheme \in {"http", "https"} /\ parsed.netloc # ""

\* The texts the user copies: none, a word, two URLs (one with its scheme
\* in upper case), a URL of another scheme, one with no host and one that
\* urlparse rejects.
Texts ==
    { <<>>,
      <<"hello">>,
      <<"http", ":", "//", "a.example", "/", "v">>,
      <<"HTTPS", ":", "//", "b.example">>,
      <<"ftp", ":", "//", "a.example">>,
      <<"https", ":", "//">>,
      <<"http", ":", "//", "[bad">> }

\* ------------------------------------------------------------ state

VARIABLES
    env,            \* the JSON object on each process's standard input
    tick_steps,     \* the amounts by which the clock advances
    pc,             \* where each process is
    clock, ticks,   \* time.time(), and how often it advanced
    faults,         \* errors and interruptions that may still be injected
    timestamp, execution_id,    \* ExecutionContext
    done_before,    \* the processes that had ended when this one started
    history_exists, history,    \* execution_history.log
    dir,            \* .claude/log: lock file name -> inode
    held,           \* flock: the <<inode, process>> locks held
    content,        \* inode -> text of an execution lock file
    lock_file, is_locked,       \* ExecutionGuard
    fl_file,        \* FileLock.lock_file
    log,            \* hooks.log: the writes that reached it, in order
    is_allowed,     \* what ExecutionGuard.__enter__ returned
    denial,         \* why it returned False
    recorded,       \* history records appended by each process
    exc,            \* the exception propagating in each process
    exit_code,
    lookups, calls, outputs, commands,  \* what dispatch did
    registry,       \* ToolHandlerRegistry._handlers of a registry object
    registrations,  \* the register_handler calls made on it, in order
    looked_up,      \* the last get_handler call on it: the name, what it
                    \* returned, and how many registrations preceded it
    overrides,      \* yt_dlp_monitor: the options of the command line
    merged,         \* what merge_yt_dlp_options did with them
    clipboard,      \* the text on the system clipboard
    monitor_pc,     \* where monitor_clipboard is
    last_text,      \* monitor_clipboard's last_text
    reads,          \* the pyperclip.paste() calls made, in order
    downloads,      \* the download_video calls made, in order
    media_files,    \* AudioNormalizePP: the downloaded files, by number
    tmp_files,      \* the temporary file made for each of them
    normalizing,    \* the number of the file run() was last called for
    normalize_pc,   \* where _normalize_file is
    reports         \* what _normalize_file reported for each file

vars == <<env, tick_steps, pc, clock, ticks, faults, timestamp, execution_id,
          done_before, history_exists, history, dir, held, content, lock_file,
          is_locked, fl_file, log, is_allowed, denial, recorded, exc, exit_code,
          lookups, calls, outputs, commands, registry, registrations,
          looked_up, overrides, merged, clipboard, monitor_pc, last_text,
          reads, downloads, media_files, tmp_files, normalizing, normalize_pc,
          reports>>

\* The state of yt_dlp_monitor, which no step of hooks.py touches.
mergeVars == <<overrides, merged>>
monitorVars == <<clipboard, monitor_pc, last_text, reads, downloads>>
normalizeVars == <<media_files, tmp_files, normalizing, normalize_pc, reports>>
ytVars == <<mergeVars, monitorVars, normalizeVars>>

fsVars == <<dir, held, content, lock_file, is_locked, fl_file>>
ctxVars == <<timestamp, execution_id, done_before>>
dispatchVars == <<lookups, calls, outputs, commands>>
envVars == <<env, tick_steps, registry, registrations, looked_up, ytVars>>
timeVars == <<clock, ticks>>
histVars == <<history_exists, history, recorded>>
gateVars == <<is_allowed, denial>>

\* Whether an error may still be injected.
FaultChoices == IF faults > 0 THEN {FALSE, TRUE} ELSE {FALSE}
Fault(f) == faults' = IF f THEN faults - 1 ELSE faults

Envelope(sid, ev, tool, path, large) ==
    [wellformed |-> TRUE, session_id |-> sid, hook_event_name |-> ev,
     tool_name |-> tool, file_path |-> path, large |-> large]

LockNames(e) == {LockFileName(ContextId(e[p])) : p \in Procs} \cup {LogLockName}

\* The state before any process has read its input.  `active` are the
\* processes that run.
\* merge_yt_dlp_options has not been called.
NotCalled == [outcome |-> "not_called", options |-> <<>>]

\* The state of hooks.py when its processes start.
InitHooks(e, active, steps, budget, exists, lines) ==
    /\ env = e
    /\ tick_steps = steps
    /\ pc = [p \in Procs |-> IF p \in active THEN "start" ELSE "absent"]
    /\ clock = 0 /\ ticks = 0 /\ faults = budget
    /\ timestamp = [p \in Procs |-> 0]
    /\ execution_id = [p \in Procs |-> ""]
    /\ done_before = [p \in Procs |-> {}]
    /\ history_exists = exists
    /\ history = lines
    /\ dir = [n \in LockNames(e) |-> NoInode]
    /\ held = {}
    /\ content = <<>>
    /\ lock_file = [p \in Procs |-> NoInode]
    /\ is_locked = [p \in Procs |-> FALSE]
    /\ fl_file = [p \in Procs |-> NoInode]
    /\ log = <<>>
    /\ is_allowed = [p \in Procs |-> "unset"]
    /\ denial = [p \in Procs |-> "none"]
    /\ recorded = [p \in Procs |-> 0]
    /\ exc = [p \in Procs |-> "none"]
    /\ exit_code = [p \in Procs |-> -1]
    /\ lookups = [p \in Procs |-> <<>>]
    /\ calls = [p \in Procs |-> <<>>]
    /\ outputs = [p \in Procs |-> <<>>]
    /\ commands = [p \in Procs |-> <<>>]
    /\ registry = DefaultHandlers
    /\ registrations = <<>>
    /\ looked_up = <<>>

\* parse_args is not called.
NoMerge == overrides = <<>> /\ merged = NotCalled

\* monitor_clipboard is not called.
NoMonitor ==
    /\ clipboard = <<>> /\ monitor_pc = "idle" /\ last_text = <<>>
    /\ reads = <<>> /\ downloads = <<>>

\* No file is downloaded.
NoNormalize ==
    /\ media_files = <<>> /\ tmp_files = <<>> /\ normalizing = 0
    /\ normalize_pc = "idle" /\ reports = <<>>

InitWith(e, active, steps, budget, exists, lines) ==
    /\ InitHooks(e, active, steps, budget, exists, lines)
    /\ NoMerge
    /\ NoMonitor
    /\ NoNormalize


\* ------------------------------------------------------------ helpers

Locked(inode, p) == \E q \in Procs \ {p} : <<inode, q>> \in held

\* open(path, "w") by p: the inode the name leads to, a new one when the
\* name does not exist.
OpenedInode(name, p) == IF dir[name] = NoInode THEN <<name, p>> ELSE dir[name]

\* Mutant of AfterEnter: a granted process dispatches at once.
AfterEnterDispatches(allowed) == IF allowed = "True" THEN "dispatch" ELSE "g_unlock"

\* Mutant of AfterEnter: process goes on whatever __enter__ returned.
AfterEnterIgnored(allowed) == "record"

\* `with ExecutionGuard(context) as is_allowed: if not is_allowed: return`:
\* where process goes on with what __enter__ returned.
AfterEnter(allowed) == IF allowed = "True" THEN "record" ELSE "g_unlock"

\* Where an exception raised at a place of the guarded block is handled
\* first: the log file's and FileLock's __exit__ inside log_with_timestamp,
\* ExecutionGuard.__exit__ elsewhere.
Unwind(at) ==
    CASE at \in {"log_open", "log_dump"} -> "fl_unlock"
      [] at = "log_close" -> "log_close"
      [] OTHER -> "g_unlock"

GuardedBlock ==
    {"record", "log_mkdir", "fl_open", "fl_flock", "log_open", "log_dump",
     "log_close", "dispatch"}

\* Mutant of ExitCode: main without its `except BaseException`, an
\* exception ends the interpreter with status 1.
ExitCodeUncaught(e) ==
    CASE e = "none" -> 0
      [] e = "SystemExit" -> 2
      [] e = "KeyboardInterrupt" -> 130
      [] OTHER -> 1

\* main: the exit status for the exception that reached it.  SystemExit
\* carries 2, any other exception is reported by handle_fatal_error, and a
\* KeyboardInterrupt is raised again and ends the interpreter.
INTERRUPTED == 130
ExitCode(e) ==
    CASE e = "none" -> 0
      [] e = "KeyboardInterrupt" -> INTERRUPTED
      [] OTHER -> EXIT_FATAL

\* ------------------------------------------------------------ actions

\* time.time() advances.
Tick ==
    /\ ticks < MaxTicks
    /\ \E d \in tick_steps : clock + d <= MaxClock /\ clock' = clock + d
    /\ ticks' = ticks + 1
    /\ UNCHANGED <<envVars, pc, faults, ctxVars, histVars, fsVars, log,
                   gateVars, exc, exit_code, dispatchVars>>

\* Mutant of ReadJsonInput: handle_fatal_error returns and read_json_input
\* goes on to its `return {}`.
ReadJsonInputReturnsEmpty(p) ==
    /\ pc[p] = "start"
    /\ timestamp' = [timestamp EXCEPT ![p] = clock]
    /\ execution_id' = [execution_id EXCEPT ![p] = ContextId(env[p])]
    /\ pc' = [pc EXCEPT ![p] = "check"]
    /\ done_before' = [done_before EXCEPT ![p] = {q \in Procs : pc[q] = "done"}]
    /\ UNCHANGED <<envVars, timeVars, faults, histVars, fsVars, log, gateVars,
                   exc, exit_code, dispatchVars>>

\* process: read_json_input, ExecutionContext(json_data),
\* ExecutionGuard(context).
ReadJsonInput(p) ==
    /\ pc[p] = "start"
    /\ IF env[p].wellformed
       THEN /\ timestamp' = [timestamp EXCEPT ![p] = clock]
            /\ execution_id' = [execution_id EXCEPT ![p] = ContextId(env[p])]
            /\ pc' = [pc EXCEPT ![p] = "check"]
            /\ exc' = exc
       ELSE /\ exc' = [exc EXCEPT ![p] = "SystemExit"]
            /\ pc' = [pc EXCEPT ![p] = "main_exit"]
            /\ UNCHANGED <<timestamp, execution_id>>
    /\ done_before' = [done_before EXCEPT ![p] = {q \in Procs : pc[q] = "done"}]
    /\ UNCHANGED <<envVars, timeVars, faults, histVars, fsVars, log, gateVars,
                   exit_code, dispatchVars>>

\* ExecutionGuard.__enter__: the duplicate check.
GuardEnterCheck(p) ==
    /\ pc[p] = "check"
    /\ \E f \in FaultChoices :
       \E readable \in IF f /\ history # <<>> THEN 0..(Len(history) - 1)
                       ELSE {Len(history)} :
       \E ahead \in BOOLEAN :
         LET r == IsDuplicateExecution(history_exists, history, readable, ahead,
                                       execution_id[p], timestamp[p])
         IN  /\ Fault(f)
             /\ CASE r = "dup" ->
                       /\ is_allowed' = [is_allowed EXCEPT ![p] = "False"]
                       /\ denial' = [denial EXCEPT ![p] = "duplicate"]
                       /\ pc' = [pc EXCEPT ![p] = AfterEnter("False")]
                       /\ exc' = exc
                  [] r = "nodup" ->
                       /\ pc' = [pc EXCEPT ![p] = "mkdir"]
                       /\ UNCHANGED <<gateVars, exc>>
                  [] OTHER ->
                       /\ exc' = [exc EXCEPT ![p] = "Exception"]
                       /\ pc' = [pc EXCEPT ![p] = "main_exit"]
                       /\ UNCHANGED gateVars
    /\ UNCHANGED <<envVars, timeVars, ctxVars, histVars, fsVars, log, exit_code,
                   dispatchVars>>

\* Mutant of Denied: the error is swallowed and __enter__ returns True.
DeniedContinues(p, why) ==
    /\ is_allowed' = [is_allowed EXCEPT ![p] = "True"]
    /\ denial' = [denial EXCEPT ![p] = why]
    /\ pc' = [pc EXCEPT ![p] = "record"]

\* __enter__ left by `except (OSError, BlockingIOError): return False`.
Denied(p, why) ==
    /\ is_allowed' = [is_allowed EXCEPT ![p] = "False"]
    /\ denial' = [denial EXCEPT ![p] = why]
    /\ pc' = [pc EXCEPT ![p] = AfterEnter("False")]

\* self.lock_file_path.parent.mkdir(parents=True, exist_ok=True)
GuardEnterMkdir(p) ==
    /\ pc[p] = "mkdir"
    /\ \E f \in FaultChoices :
         /\ Fault(f)
         /\ IF f THEN Denied(p, "mkdir_error")
            ELSE pc' = [pc EXCEPT ![p] = "open"] /\ UNCHANGED gateVars
    /\ UNCHANGED <<envVars, timeVars, ctxVars, histVars, fsVars, log, exc,
                   exit_code, dispatchVars>>

\* Mutant of GuardEnterOpen: the lock file is created exclusively, a file
\* that exists makes open fail.
GuardEnterOpenExclusive(p) ==
    /\ pc[p] = "open"
    /\ \E f \in FaultChoices :
         /\ Fault(f)
         /\ IF f \/ dir[LockFileName(execution_id[p])] # NoInode
            THEN Denied(p, "open_error") /\ UNCHANGED <<dir, content, lock_file>>
            ELSE LET name == LockFileName(execution_id[p])
                     inode == OpenedInode(name, p)
                 IN  /\ dir' = [dir EXCEPT ![name] = inode]
                     /\ content' = (inode :> "") @@ content
                     /\ lock_file' = [lock_file EXCEPT ![p] = inode]
                     /\ pc' = [pc EXCEPT ![p] = "flock"]
                     /\ UNCHANGED gateVars
    /\ UNCHANGED <<envVars, timeVars, ctxVars, histVars, held, is_locked, fl_file,
                   log, exc, exit_code, dispatchVars>>

\* self.lock_file = self.lock_file_path.open("w")
GuardEnterOpen(p) ==
    /\ pc[p] = "open"
    /\ \E f \in FaultChoices :
         /\ Fault(f)
         /\ IF f
            THEN Denied(p, "open_error") /\ UNCHANGED <<dir, content, lock_file>>
            ELSE LET name == LockFileName(execution_id[p])
                     inode == OpenedInode(name, p)
                 IN  /\ dir' = [dir EXCEPT ![name] = inode]
                     /\ content' = (inode :> "") @@ content
                     /\ lock_file' = [lock_file EXCEPT ![p] = inode]
                     /\ pc' = [pc EXCEPT ![p] = "flock"]
                     /\ UNCHANGED gateVars
    /\ UNCHANGED <<envVars, timeVars, ctxVars, histVars, held, is_locked, fl_file,
                   log, exc, exit_code, dispatchVars>>

\* Mutant of GuardEnterFlock: the lock is taken without LOCK_NB, the
\* call returns when the lock is free.
GuardEnterFlockBlocking(p) ==
    /\ pc[p] = "flock"
    /\ ~Locked(lock_file[p], p)
    /\ \E f \in FaultChoices :
         /\ Fault(f)
         /\ IF f
            THEN Denied(p, "flock_error") /\ held' = held
            ELSE /\ held' = held \cup {<<lock_file[p], p>>}
                 /\ pc' = [pc EXCEPT ![p] = "write"]
                 /\ UNCHANGED gateVars
    /\ UNCHANGED <<envVars, timeVars, ctxVars, histVars, dir, content, lock_file,
                   is_locked, fl_file, log, exc, exit_code, dispatchVars>>

\* fcntl.flock(self.lock_file.fileno(), fcntl.LOCK_EX | fcntl.LOCK_NB)
GuardEnterFlock(p) ==
    /\ pc[p] = "flock"
    /\ \E f \in FaultChoices :
         /\ Fault(f)
         /\ IF f \/ Locked(lock_file[p], p)
            THEN Denied(p, IF f THEN "flock_error" ELSE "locked") /\ held' = held
            ELSE /\ held' = held \cup {<<lock_file[p], p>>}
                 /\ pc' = [pc EXCEPT ![p] = "write"]
                 /\ UNCHANGED gateVars
    /\ UNCHANGED <<envVars, timeVars, ctxVars, histVars, dir, content, lock_file,
                   is_locked, fl_file, log, exc, exit_code, dispatchVars>>

\* self.lock_file.write(process_info); flush(); self.is_locked = True;
\* return True
GuardEnterWrite(p) ==
    /\ pc[p] = "write"
    /\ \E f \in FaultChoices :
         /\ Fault(f)
         /\ IF f
            THEN Denied(p, "write_error") /\ UNCHANGED <<content, is_locked>>
            ELSE /\ content' = (lock_file[p] :> ProcessInfo(p, timestamp[p])) @@ content
                 /\ is_locked' = [is_locked EXCEPT ![p] = TRUE]
                 /\ is_allowed' = [is_allowed EXCEPT ![p] = "True"]
                 /\ denial' = denial
                 /\ pc' = [pc EXCEPT ![p] = AfterEnter("True")]
    /\ UNCHANGED <<envVars, timeVars, ctxVars, histVars, dir, held, lock_file,
                   fl_file, log, exc, exit_code, dispatchVars>>

\* Mutant of RecordExecution: the history file is opened with "w" and
\* holds the new record alone.
RecordExecutionRewrites(p) ==
    /\ pc[p] = "record"
    /\ \E f \in FaultChoices :
         /\ Fault(f)
         /\ IF f
            THEN UNCHANGED histVars
            ELSE /\ history_exists' = TRUE
                 /\ history' = <<HistoryLine(execution_id[p], timestamp[p])>>
                 /\ recorded' = [recorded EXCEPT ![p] = @ + 1]
    /\ pc' = [pc EXCEPT ![p] = "log_mkdir"]
    /\ UNCHANGED <<envVars, timeVars, ctxVars, fsVars, log, gateVars, exc,
                   exit_code, dispatchVars>>

\* _record_execution: an OSError is ignored.
RecordExecution(p) ==
    /\ pc[p] = "record"
    /\ \E f \in FaultChoices :
         /\ Fault(f)
         /\ IF f
            THEN UNCHANGED histVars
            ELSE /\ history_exists' = TRUE
                 /\ history' = Append(history,
                                      HistoryLine(execution_id[p], timestamp[p]))
                 /\ recorded' = [recorded EXCEPT ![p] = @ + 1]
    /\ pc' = [pc EXCEPT ![p] = "log_mkdir"]
    /\ UNCHANGED <<envVars, timeVars, ctxVars, fsVars, log, gateVars, exc,
                   exit_code, dispatchVars>>

\* Mutant of Raise: the exception is caught where it is raised and the
\* process goes on to dispatch.
RaiseCaught(p, e) ==
    /\ exc' = exc
    /\ pc' = [pc EXCEPT ![p] = "dispatch"]

\* An exception raised in the guarded block at pc[p].
Raise(p, e) ==
    /\ exc' = [exc EXCEPT ![p] = e]
    /\ pc' = [pc EXCEPT ![p] = Unwind(pc[p])]

\* log_with_timestamp: self.log_file_path.parent.mkdir(...)
LogMkdir(p) ==
    /\ pc[p] = "log_mkdir"
    /\ \E f \in FaultChoices :
         /\ Fault(f)
         /\ IF f THEN Raise(p, "Exception")
            ELSE pc' = [pc EXCEPT ![p] = "fl_open"] /\ exc' = exc
    /\ UNCHANGED <<envVars, timeVars, ctxVars, histVars, fsVars, log, gateVars,
                   exit_code, dispatchVars>>

\* FileLock.__enter__: self.lock_file = self.lock_file_path.open("w")
FileLockEnterOpen(p) ==
    /\ pc[p] = "fl_open"
    /\ \E f \in FaultChoices :
         /\ Fault(f)
         /\ IF f
            THEN Raise(p, "Exception") /\ UNCHANGED <<dir, fl_file>>
            ELSE LET inode == OpenedInode(LogLockName, p)
                 IN  /\ dir' = [dir EXCEPT ![LogLockName] = inode]
                     /\ fl_file' = [fl_file EXCEPT ![p] = inode]
                     /\ pc' = [pc EXCEPT ![p] = "fl_flock"]
                     /\ exc' = exc
    /\ UNCHANGED <<envVars, timeVars, ctxVars, histVars, held, content, lock_file,
                   is_locked, log, gateVars, exit_code, dispatchVars>>

\* Mutant of FileLockEnterFlock: the log lock is taken with LOCK_NB, a
\* held lock raises BlockingIOError.
FileLockEnterFlockNonBlocking(p) ==
    /\ pc[p] = "fl_flock"
    /\ IF Locked(fl_file[p], p)
       THEN Raise(p, "Exception") /\ held' = held
       ELSE /\ held' = held \cup {<<fl_file[p], p>>}
            /\ pc' = [pc EXCEPT ![p] = "log_open"]
            /\ exc' = exc
    /\ UNCHANGED <<envVars, timeVars, faults, ctxVars, histVars, dir, content,
                   lock_file, is_locked, fl_file, log, gateVars, exit_code,
                   dispatchVars>>

\* FileLock.__enter__: fcntl.flock(self.lock_file.fileno(), fcntl.LOCK_EX)
\* returns once no other process holds the lock.
FileLockEnterFlock(p) ==
    /\ pc[p] = "fl_flock"
    /\ ~Locked(fl_file[p], p)
    /\ held' = held \cup {<<fl_file[p], p>>}
    /\ pc' = [pc EXCEPT ![p] = "log_open"]
    /\ UNCHANGED <<envVars, timeVars, faults, ctxVars, histVars, dir, content,
                   lock_file, is_locked, fl_file, log, gateVars, exc, exit_code,
                   dispatchVars>>

\* self.log_file_path.open("a", encoding="utf-8")
LogOpen(p) ==
    /\ pc[p] = "log_open"
    /\ \E f \in FaultChoices :
         /\ Fault(f)
         /\ IF f THEN Raise(p, "Exception")
            ELSE pc' = [pc EXCEPT ![p] = "log_dump"] /\ exc' = exc
    /\ UNCHANGED <<envVars, timeVars, ctxVars, histVars, fsVars, log, gateVars,
                   exit_code, dispatchVars>>

\* json.dump(log_entry, f); f.write("\n"): a record larger than the file
\* object's buffer reaches the file now, but for its end.
LogDump(p) ==
    /\ pc[p] = "log_dump"
    /\ log' = IF env[p].large THEN Append(log, <<p, "body">>) ELSE log
    /\ pc' = [pc EXCEPT ![p] = "log_close"]
    /\ UNCHANGED <<envVars, timeVars, faults, ctxVars, histVars, fsVars,
                   gateVars, exc, exit_code, dispatchVars>>

\* The log file is closed: what its buffer holds is written.
LogClose(p) ==
    /\ pc[p] = "log_close"
    /\ log' = Append(log, <<p, IF env[p].large THEN "end" ELSE "record">>)
    /\ pc' = [pc EXCEPT ![p] = "fl_unlock"]
    /\ UNCHANGED <<envVars, timeVars, faults, ctxVars, histVars, fsVars,
                   gateVars, exc, exit_code, dispatchVars>>

\* Mutant of FileLockExitUnlock: the log lock is kept until the process ends.
FileLockExitKeepsLock(p) ==
    /\ pc[p] = "fl_unlock"
    /\ pc' = [pc EXCEPT ![p] = "fl_close"]
    /\ UNCHANGED <<envVars, timeVars, faults, ctxVars, histVars, fsVars, log,
                   gateVars, exc, exit_code, dispatchVars>>

\* FileLock.__exit__: fcntl.flock(self.lock_file.fileno(), fcntl.LOCK_UN)
FileLockExitUnlock(p) ==
    /\ pc[p] = "fl_unlock"
    /\ held' = held \ {<<fl_file[p], p>>}
    /\ pc' = [pc EXCEPT ![p] = "fl_close"]
    /\ UNCHANGED <<envVars, timeVars, faults, ctxVars, histVars, dir, content,
                   lock_file, is_locked, fl_file, log, gateVars, exc, exit_code,
                   dispatchVars>>

\* FileLock.__exit__: self.lock_file.close(); an error leaves __exit__.
FileLockExitClose(p) ==
    /\ pc[p] = "fl_close"
    /\ fl_file' = [fl_file EXCEPT ![p] = NoInode]
    /\ \E f \in FaultChoices :
         /\ Fault(f)
         /\ IF f
            THEN /\ exc' = [exc EXCEPT ![p] = "Exception"]
                 /\ pc' = [pc EXCEPT ![p] = "g_unlock"]
            ELSE pc' = [pc EXCEPT ![p] = "fl_unlink"] /\ exc' = exc
    /\ UNCHANGED <<envVars, timeVars, ctxVars, histVars, dir, held, content,
                   lock_file, is_locked, log, gateVars, exit_code, dispatchVars>>

\* FileLock.__exit__: self.lock_file_path.unlink(), FileNotFoundError
\* suppressed; then log_with_timestamp returns or the exception goes on.
FileLockExitUnlink(p) ==
    /\ pc[p] = "fl_unlink"
    /\ \E f \in FaultChoices :
         /\ Fault(f)
         /\ IF f
            THEN /\ exc' = [exc EXCEPT ![p] = "Exception"]
                 /\ pc' = [pc EXCEPT ![p] = "g_unlock"]
                 /\ dir' = dir
            ELSE /\ dir' = [dir EXCEPT ![LogLockName] = NoInode]
                 /\ pc' = [pc EXCEPT ![p] =
                              IF exc[p] = "none" THEN "dispatch" ELSE "g_unlock"]
                 /\ exc' = exc
    /\ UNCHANGED <<envVars, timeVars, ctxVars, histVars, held, content, lock_file,
                   is_locked, fl_file, log, gateVars, exit_code, dispatchVars>>


\* HookCoordinator.__init__: the registry of a fresh process.
Registry == DefaultHandlers

\* The branches of _handle_hook_event.
\* Mutant of Route: a tool event needs no tool name.
RouteWithoutToolName(hook_event_name, tool_name) ==
    IF hook_event_name = PRE_TOOL_USE THEN "before"
    ELSE IF hook_event_name = POST_TOOL_USE THEN "after"
    ELSE IF hook_event_name \in {NOTIFICATION, STOP, SUBAGENT_STOP} THEN "non_tool"
    ELSE "none"

\* Mutant of Route: an envelope that names a tool is a tool event.
RouteByToolName(hook_event_name, tool_name) ==
    IF hook_event_name = PRE_TOOL_USE /\ Truthy(tool_name) THEN "before"
    ELSE IF Truthy(tool_name) THEN "after"
    ELSE IF hook_event_name \in {NOTIFICATION, STOP, SUBAGENT_STOP} THEN "non_tool"
    ELSE "none"

\* The branch _handle_hook_event takes.
Route(hook_event_name, tool_name) ==
    IF hook_event_name = PRE_TOOL_USE /\ Truthy(tool_name) THEN "before"
    ELSE IF hook_event_name = POST_TOOL_USE /\ Truthy(tool_name) THEN "after"
    ELSE IF hook_event_name \in {NOTIFICATION, STOP, SUBAGENT_STOP} THEN "non_tool"
    ELSE "none"

\* What the external commands of run_ruff_processing may answer: each
\* returns zero, or one of them returns non-zero (CalledProcessError) or
\* cannot be started (FileNotFoundError).
RuffOutcomes(e, f) ==
    IF Route(e.hook_event_name, e.tool_name) = "after"
       /\ GetHandler(Registry, e.tool_name) = "file_handler" /\ RunsRuff(e) /\ f
    THEN {"lint_fails", "format_fails", "lint_missing", "format_missing"}
    ELSE {"ok"}

\* Mutant of RuffCommands: a lint failure is reported and the format
\* command runs all the same.
RuffCommandsGoOn(r) ==
    CASE r = "lint_fails" -> << <<"lint", "nonzero">>, <<"format", "zero">> >>
      [] r = "lint_missing" -> << <<"lint", "not_found">> >>
      [] r = "format_fails" -> << <<"lint", "zero">>, <<"format", "nonzero">> >>
      [] r = "format_missing" -> << <<"lint", "zero">>, <<"format", "not_found">> >>
      [] OTHER -> << <<"lint", "zero">>, <<"format", "zero">> >>

\* run_ruff_processing: the commands it starts, in order, each with what
\* it answered; handle_subprocess_error and handle_fatal_error leave
\* through sys.exit(2).
RuffCommands(r) ==
    CASE r = "lint_fails" -> << <<"lint", "nonzero">> >>
      [] r = "lint_missing" -> << <<"lint", "not_found">> >>
      [] r = "format_fails" -> << <<"lint", "zero">>, <<"format", "nonzero">> >>
      [] r = "format_missing" -> << <<"lint", "zero">>, <<"format", "not_found">> >>
      [] OTHER -> << <<"lint", "zero">>, <<"format", "zero">> >>

\* _handle_hook_event, with handle_before_tool_use, handle_after_tool_use,
\* _handle_non_tool_event and the handlers' actions.
HandleHookEvent(p) ==
    LET e == env[p]
        hook_event_name == e.hook_event_name
        tool_name == e.tool_name
        handler == GetHandler(Registry, tool_name)
        route == Route(hook_event_name, tool_name)
    IN
    /\ pc[p] = "dispatch"
    /\ \E f \in FaultChoices : \E r \in RuffOutcomes(e, f) :
         /\ faults' = IF r = "ok" THEN faults ELSE faults - 1
         /\ IF route = "before"
            THEN /\ lookups' = [lookups EXCEPT ![p] = Append(@, tool_name)]
                 /\ calls' = [calls EXCEPT ![p] = Append(@, <<handler, "handle_before">>)]
                 /\ UNCHANGED <<outputs, commands, exc>>
            ELSE IF route = "after"
            THEN /\ lookups' = [lookups EXCEPT ![p] = Append(@, tool_name)]
                 /\ calls' = [calls EXCEPT ![p] = Append(@, <<handler, "handle_after">>)]
                 /\ commands' = [commands EXCEPT ![p] =
                        IF handler = "file_handler" /\ RunsRuff(e)
                        THEN RuffCommands(r)
                        ELSE <<>>]
                 /\ exc' = [exc EXCEPT ![p] = IF r = "ok" THEN @ ELSE "SystemExit"]
                 /\ outputs' = outputs
            ELSE IF route = "non_tool"
            THEN /\ outputs' = [outputs EXCEPT ![p] = Append(@, hook_event_name)]
                 /\ UNCHANGED <<lookups, calls, commands, exc>>
            ELSE UNCHANGED <<lookups, calls, outputs, commands, exc>>
    /\ pc' = [pc EXCEPT ![p] = "g_unlock"]
    /\ UNCHANGED <<envVars, timeVars, ctxVars, histVars, fsVars, log, gateVars,
                   exit_code>>

\* An external interruption (KeyboardInterrupt) inside the guarded block.
Interrupt(p) ==
    /\ pc[p] \in GuardedBlock
    /\ exc[p] = "none"
    /\ faults > 0
    /\ faults' = faults - 1
    /\ Raise(p, "KeyboardInterrupt")
    /\ UNCHANGED <<envVars, timeVars, ctxVars, histVars, fsVars, log, gateVars,
                   exit_code, dispatchVars>>

\* Mutant of GuardReleases: the lock is released on a normal return only.
GuardReleasesOnReturn(locked, e) == locked /\ e = "none"

\* ExecutionGuard.__exit__: `if self.is_locked and hasattr(self, "lock_file")`,
\* whatever exception e leaves the block.
GuardReleases(locked, e) == locked

\* ExecutionGuard.__exit__: fcntl.flock(self.lock_file.fileno(), fcntl.LOCK_UN)
GuardExitUnlock(p) ==
    /\ pc[p] = "g_unlock"
    /\ IF GuardReleases(is_locked[p], exc[p])
       THEN /\ held' = held \ {<<lock_file[p], p>>}
            /\ pc' = [pc EXCEPT ![p] = "g_close"]
       ELSE /\ held' = held
            /\ pc' = [pc EXCEPT ![p] = "main_exit"]
    /\ UNCHANGED <<envVars, timeVars, faults, ctxVars, histVars, dir, content,
                   lock_file, is_locked, fl_file, log, gateVars, exc, exit_code,
                   dispatchVars>>

\* ExecutionGuard.__exit__: fcntl.flock(..., LOCK_UN) raises OSError, which
\* is suppressed and ends __exit__; the file stays open and locked until the
\* process ends.
GuardExitUnlockFails(p) ==
    /\ pc[p] = "g_unlock"
    /\ GuardReleases(is_locked[p], exc[p])
    /\ faults > 0
    /\ faults' = faults - 1
    /\ pc' = [pc EXCEPT ![p] = "main_exit"]
    /\ UNCHANGED <<envVars, timeVars, ctxVars, histVars, fsVars, log, gateVars,
                   exc, exit_code, dispatchVars>>

\* Mutant of GuardExitClose: __exit__ without contextlib.suppress, the
\* OSError of close leaves the guard.
GuardExitCloseRaises(p) ==
    /\ pc[p] = "g_close"
    /\ lock_file' = [lock_file EXCEPT ![p] = NoInode]
    /\ \E f \in FaultChoices :
         /\ Fault(f)
         /\ pc' = [pc EXCEPT ![p] = IF f THEN "main_exit" ELSE "g_unlink"]
         /\ exc' = [exc EXCEPT ![p] = IF f THEN "Exception" ELSE @]
    /\ UNCHANGED <<envVars, timeVars, ctxVars, histVars, dir, held, content,
                   is_locked, fl_file, log, gateVars, exit_code,
                   dispatchVars>>

\* ExecutionGuard.__exit__: self.lock_file.close(); an OSError is suppressed
\* and ends __exit__.
GuardExitClose(p) ==
    /\ pc[p] = "g_close"
    /\ lock_file' = [lock_file EXCEPT ![p] = NoInode]
    /\ \E f \in FaultChoices :
         /\ Fault(f)
         /\ pc' = [pc EXCEPT ![p] = IF f THEN "main_exit" ELSE "g_unlink"]
    /\ UNCHANGED <<envVars, timeVars, ctxVars, histVars, dir, held, content,
                   is_locked, fl_file, log, gateVars, exc, exit_code,
                   dispatchVars>>

\* ExecutionGuard.__exit__: self.lock_file_path.unlink(); FileNotFoundError
\* and any other OSError are suppressed.
GuardExitUnlink(p) ==
    /\ pc[p] = "g_unlink"
    /\ \E f \in FaultChoices :
         /\ Fault(f)
         /\ dir' = IF f THEN dir
                   ELSE [dir EXCEPT ![LockFileName(execution_id[p])] = NoInode]
    /\ pc' = [pc EXCEPT ![p] = "main_exit"]
    /\ UNCHANGED <<envVars, timeVars, ctxVars, histVars, held, content, lock_file,
                   is_locked, fl_file, log, gateVars, exc, exit_code,
                   dispatchVars>>

\* Mutant of MainExit: a process left by exit(2) or an exception takes its
\* history record back.
MainExitRollsBack(p) ==
    /\ pc[p] = "main_exit"
    /\ exit_code' = [exit_code EXCEPT ![p] = ExitCode(exc[p])]
    /\ held' = {h \in held : h[2] # p}
    /\ lock_file' = [lock_file EXCEPT ![p] = NoInode]
    /\ fl_file' = [fl_file EXCEPT ![p] = NoInode]
    /\ pc' = [pc EXCEPT ![p] = "done"]
    /\ history' = IF exc[p] = "none" THEN history
                  ELSE LET Other(line) ==
                               line # HistoryLine(execution_id[p], timestamp[p])
                       IN  SelectSeq(history, Other)
    /\ UNCHANGED <<envVars, timeVars, faults, ctxVars, history_exists, recorded,
                   dir, content, is_locked, log, gateVars, exc, dispatchVars>>

\* main returns or is left by an exception, and the process ends: its open
\* files are closed, which drops the locks it still holds.
MainExit(p) ==
    /\ pc[p] = "main_exit"
    /\ exit_code' = [exit_code EXCEPT ![p] = ExitCode(exc[p])]
    /\ held' = {h \in held : h[2] # p}
    /\ lock_file' = [lock_file EXCEPT ![p] = NoInode]
    /\ fl_file' = [fl_file EXCEPT ![p] = NoInode]
    /\ pc' = [pc EXCEPT ![p] = "done"]
    /\ UNCHANGED <<envVars, timeVars, faults, ctxVars, histVars, dir, content,
                   is_locked, log, gateVars, exc, dispatchVars>>

\* One step of the code of process p.
Run(p) ==
    \/ ReadJsonInput(p)
    \/ GuardEnterCheck(p)
    \/ GuardEnterMkdir(p)
    \/ GuardEnterOpen(p)
    \/ GuardEnterFlock(p)
    \/ GuardEnterWrite(p)
    \/ RecordExecution(p)
    \/ LogMkdir(p)
    \/ FileLockEnterOpen(p)
    \/ FileLockEnterFlock(p)
    \/ LogOpen(p)
    \/ LogDump(p)
    \/ LogClose(p)
    \/ FileLockExitUnlock(p)
    \/ FileLockExitClose(p)
    \/ FileLockExitUnlink(p)
    \/ HandleHookEvent(p)
    \/ GuardExitUnlock(p)
    \/ GuardExitClose(p)
    \/ GuardExitUnlink(p)
    \/ MainExit(p)

Next == Tick \/ \E p \in Procs : Run(p) \/ Interrupt(p)

\* The processes alone: no time passes and nothing interrupts them.
NextRace == \E p \in Procs : Run(p)

\* What the calls on a registry object leave alone.
processVars ==
    <<env, tick_steps, pc, timeVars, faults, ctxVars, histVars, fsVars, log,
      gateVars, exc, exit_code, dispatchVars, ytVars>>

\* The state of hooks.py, which no step of yt_dlp_monitor touches.
hooksVars ==
    <<env, tick_steps, pc, timeVars, faults, ctxVars, histVars, fsVars, log,
      gateVars, exc, exit_code, dispatchVars, registry, registrations,
      looked_up>>

\* Mutant of RegisterHandler: a name that has a binding keeps it.
RegisterHandlerOnce(tool_name, handler) ==
    /\ Len(registrations) < MaxRegistrations
    /\ registry' = IF tool_name \in DOMAIN registry THEN registry
                   ELSE (tool_name :> handler) @@ registry
    /\ registrations' = Append(registrations, <<tool_name, handler>>)
    /\ UNCHANGED <<looked_up, processVars>>

\* register_handler: self._handlers[tool_name] = handler
RegisterHandler(tool_name, handler) ==
    /\ Len(registrations) < MaxRegistrations
    /\ registry' = (tool_name :> handler) @@ registry
    /\ registrations' = Append(registrations, <<tool_name, handler>>)
    /\ UNCHANGED <<looked_up, processVars>>

\* get_handler(tool_name) on the registry object.
LookupHandler(tool_name) ==
    /\ looked_up' = <<tool_name, GetHandler(registry, tool_name),
                      Len(registrations)>>
    /\ UNCHANGED <<registry, registrations, processVars>>

\* The tool names and the handlers the calls on the registry are made with.
RegistryNames == {BASH, WRITE, "Task", "write"}
NewHandlers == {"handler1", "handler2"}

NextRegistry ==
    \/ \E t \in RegistryNames : \E h \in NewHandlers : RegisterHandler(t, h)
    \/ \E t \in RegistryNames : LookupHandler(t)

\* The processes and the clock: nothing fails and nothing interrupts.
NextTimed == Tick \/ \E p \in Procs : Run(p)

\* ------------------------------------------- yt_dlp_monitor: actions

\* parse_args with a non-empty command line: merge_yt_dlp_options(overrides)
MergeOptions ==
    /\ merged.outcome = "not_called"
    /\ merged' = MergeYtDlpOptions(overrides)
    /\ UNCHANGED <<hooksVars, overrides, monitorVars, normalizeVars>>

\* A pyperclip.paste() call: the text it returned, or that it raised
\* PyperclipException.
Read(ok, text) == [ok |-> ok, text |-> text]

\* The user copies a text.
Copy(text) ==
    /\ monitor_pc \in {"startup", "polling"}
    /\ clipboard # text
    /\ clipboard' = text
    /\ UNCHANGED <<hooksVars, mergeVars, normalizeVars, monitor_pc, last_text, reads, downloads>>

\* monitor_clipboard up to its loop: last_text = pyperclip.paste(); a
\* PyperclipException of this call leaves monitor_clipboard.
MonitorStartup ==
    /\ monitor_pc = "startup"
    /\ \E ok \in BOOLEAN :
         /\ reads' = Append(reads, Read(ok, IF ok THEN clipboard ELSE <<>>))
         /\ last_text' = IF ok THEN clipboard ELSE last_text
         /\ monitor_pc' = IF ok THEN "polling" ELSE "crashed"
    /\ UNCHANGED <<hooksVars, mergeVars, normalizeVars, clipboard, downloads>>

\* One pass of the loop of monitor_clipboard, download_video included.
MonitorPoll ==
    /\ monitor_pc = "polling"
    /\ Len(reads) < 1 + MaxPolls
    /\ \E ok \in BOOLEAN :
         LET current_text == clipboard
         IN  /\ reads' = Append(reads, Read(ok, IF ok THEN current_text ELSE <<>>))
             /\ IF ok /\ current_text # last_text
                THEN /\ last_text' = current_text
                     /\ downloads' =
                            IF IsValidUrl(current_text)
                            THEN Append(downloads,
                                        [read |-> Len(reads) + 1, url |-> current_text])
                            ELSE downloads
                ELSE UNCHANGED <<last_text, downloads>>
    /\ UNCHANGED <<hooksVars, mergeVars, normalizeVars, clipboard, monitor_pc>>

\* KeyboardInterrupt: sys.exit(0)
MonitorStop ==
    /\ monitor_pc \in {"startup", "polling"}
    /\ monitor_pc' = "stopped"
    /\ UNCHANGED <<hooksVars, mergeVars, normalizeVars, clipboard, last_text, reads, downloads>>

NextMonitor ==
    \/ \E text \in Texts : Copy(text)
    \/ MonitorStartup
    \/ MonitorPoll
    \/ MonitorStop

\* --------------------------------------- yt_dlp_monitor: normalization

\* The file _normalize_file works on.
Current == normalizing

\* _normalize_file ends for the current file with the report r, or the
\* exception of its last call leaves it.
NormalizeEnds(r) ==
    /\ reports' = Append(reports, r)
    /\ normalize_pc' = IF r = "raised" THEN "raised" ELSE "run"

\* AudioNormalizePP.run for the next downloaded file, and _normalize_file
\* up to `if not path.exists()`.
PostProcessorRun ==
    /\ normalize_pc = "run"
    /\ normalizing < NumFiles
    /\ normalizing' = normalizing + 1
    /\ IF media_files[normalizing + 1] = "absent"
       THEN NormalizeEnds("missing")
       ELSE normalize_pc' = "mkstemp" /\ reports' = reports
    /\ UNCHANGED <<hooksVars, mergeVars, monitorVars, media_files, tmp_files>>

\* fd, tmp_path = tempfile.mkstemp(suffix=path.suffix, dir=path.parent)
Mkstemp ==
    /\ normalize_pc = "mkstemp"
    /\ \E ok \in BOOLEAN :
         IF ok
         THEN /\ tmp_files' = [tmp_files EXCEPT ![Current] = "empty"]
              /\ normalize_pc' = "close" /\ reports' = reports
         ELSE NormalizeEnds("no_tmp") /\ tmp_files' = tmp_files
    /\ UNCHANGED <<hooksVars, mergeVars, monitorVars, media_files, normalizing>>

\* os.close(fd), in the same try: its OSError is reported as a failure to
\* make the temporary file.
CloseFd ==
    /\ normalize_pc = "close"
    /\ \E ok \in BOOLEAN :
         IF ok
         THEN normalize_pc' = "normalize" /\ reports' = reports
         ELSE NormalizeEnds("no_tmp")
    /\ UNCHANGED <<hooksVars, mergeVars, monitorVars, media_files, tmp_files,
                   normalizing>>

\* FFmpegNormalize(**kwargs), add_media_file, run_normalization: the
\* result is in the temporary file, or FFmpegNormalizeError or OSError is
\* raised with the temporary file empty or partly written.
RunNormalization ==
    /\ normalize_pc = "normalize"
    /\ \E written \in {"normalized", "partial", "empty"} :
         /\ tmp_files' = [tmp_files EXCEPT ![Current] = written]
         /\ normalize_pc' = IF written = "normalized" THEN "move" ELSE "cleanup"
    /\ UNCHANGED <<hooksVars, mergeVars, monitorVars, media_files, normalizing,
                   reports>>

\* shutil.move(tmp_path, str(path)): os.rename, and when that raises
\* OSError, copy2 onto the file followed by os.unlink of the temporary file.
\* The copy opens the destination for writing, which empties it.
ShutilMove ==
    /\ normalize_pc = "move"
    /\ \E outcome \in {"renamed", "copied", "open_failed", "copy_failed",
                        "unlink_failed"} :
         /\ media_files' = [media_files EXCEPT ![Current] =
                CASE outcome \in {"renamed", "copied", "unlink_failed"} -> "normalized"
                  [] outcome = "copy_failed" -> "partial"
                  [] OTHER -> @]
         /\ tmp_files' = [tmp_files EXCEPT ![Current] =
                IF outcome \in {"renamed", "copied"} THEN "none" ELSE @]
         /\ IF outcome \in {"renamed", "copied"}
            THEN NormalizeEnds("completed")
            ELSE normalize_pc' = "cleanup" /\ reports' = reports
    /\ UNCHANGED <<hooksVars, mergeVars, monitorVars, normalizing>>

\* except (FFmpegNormalizeError, OSError): report_warning and
\* Path(tmp_path).unlink(missing_ok=True), whose OSError leaves
\* _normalize_file.
Cleanup ==
    /\ normalize_pc = "cleanup"
    /\ \E ok \in BOOLEAN :
         IF ok
         THEN /\ tmp_files' = [tmp_files EXCEPT ![Current] = "none"]
              /\ NormalizeEnds("failed")
         ELSE /\ tmp_files' = tmp_files
              /\ NormalizeEnds("raised")
    /\ UNCHANGED <<hooksVars, mergeVars, monitorVars, media_files, normalizing>>

NextNormalize ==
    \/ PostProcessorRun
    \/ Mkstemp
    \/ CloseFd
    \/ RunNormalization
    \/ ShutilMove
    \/ Cleanup

\* ------------------------------------------------------ specifications

WriteEvent == Envelope("s1", POST_TOOL_USE, WRITE, <<"x", ".py">>, TRUE)
BashEvent == Envelope("s1", POST_TOOL_USE, BASH, <<>>, FALSE)
NotificationEvent == Envelope("s1", NOTIFICATION, Absent, <<>>, FALSE)

\* Concurrent processes: the first one handles a Write event, the others
\* the same event or another one.
ConcurrentEnvelopes ==
    {e \in [Procs -> {WriteEvent, BashEvent, NotificationEvent}] :
        /\ e[1] = WriteEvent
        /\ NumProcs >= 2 => e[2] # NotificationEvent}

\* The first `Concurrent` processes, with errors, interruptions and time.
Init ==
    \E e \in ConcurrentEnvelopes :
        /\ \A p \in Procs : p > Concurrent => e[p] = WriteEvent
        /\ InitWith(e, Procs \cap (1..Concurrent), {WindowTicks}, MaxFaults, FALSE, <<>>)

Spec == Init /\ [][Next]_vars

\* All processes, racing for the locks with no error injected.
InitRace ==
    \E e \in ConcurrentEnvelopes : InitWith(e, Procs, {}, 0, FALSE, <<>>)

SpecRace == InitRace /\ [][NextRace]_vars

\* The same Write event twice, the second one at the same time as the first,
\* 0.1 s or 4.9 s after it, with an error or an interruption at any place.
InitRetry ==
    InitWith([p \in Procs |-> WriteEvent], 1..Concurrent,
             {1, WindowTicks - 1}, MaxFaults, FALSE, <<>>)

SpecRetry == InitRetry /\ [][Next]_vars

\* Concurrent processes with errors in the guarded block and in every
\* operation of the guard's release.
NextRelease ==
    \E p \in Procs : Run(p) \/ Interrupt(p) \/ GuardExitUnlockFails(p)

InitRelease ==
    \E e \in ConcurrentEnvelopes :
        InitWith(e, 1..Concurrent, {}, ReleaseFaults, FALSE, <<>>)

SpecRelease == InitRelease /\ [][NextRelease]_vars

\* Concurrent processes, no errors, under a scheduler that lets every
\* process that can take a step take one in the end.
InitFair ==
    \E e \in ConcurrentEnvelopes :
        InitWith(e, 1..Concurrent, {}, 0, FALSE, <<>>)

SpecFair ==
    InitFair /\ [][NextRace]_vars /\ \A p \in Procs : WF_vars(Run(p))

\* One process that finds a history left by earlier processes: records of
\* its own and of another fingerprint, lines that are no records, and
\* bytes that are no text.
MaxHistory == 2

HistoryLines ==
    LET F == ContextId(WriteEvent)
        G == ContextId(BashEvent)
    IN  {HistoryLine(F, 0), HistoryLine(F, 1), HistoryLine(G, 0),
         <<>>, <<F>>, <<F, ":", "x">>, <<F, ":", "0", ":", "0">>,
         <<Undecodable>>}

Histories == UNION {[1..n -> HistoryLines] : n \in 0..MaxHistory}

InitHistory ==
    \E exists \in BOOLEAN :
    \E lines \in Histories :
        /\ ~exists => lines = <<>>
        /\ InitWith([p \in Procs |-> WriteEvent], {1},
                    {1, WindowTicks - 1, WindowTicks, WindowTicks + 1},
                    MaxFaults, exists, lines)

SpecHistory == InitHistory /\ [][Next]_vars

\* One process and any envelope: every event name, known or not, with
\* every tool name, bound or not, missing or empty, and input that is no
\* JSON.
EventNames ==
    {PRE_TOOL_USE, POST_TOOL_USE, NOTIFICATION, STOP, SUBAGENT_STOP,
     "Unknown", Absent}

ToolNames ==
    {BASH, READ, EDIT, MULTI_EDIT, WRITE, NOTEBOOK_READ, NOTEBOOK_EDIT,
     "Task", "write", "", Absent}

FilePaths ==
    {<<>>, <<"x", ".py">>, <<"x", ".pyi">>, <<"x", ".txt">>, <<"x.py", ".bak">>}

Malformed == [Envelope("", Absent, Absent, <<>>, FALSE) EXCEPT !.wellformed = FALSE]

DispatchEnvelopes ==
    {Envelope("s1", ev, tool, path, FALSE) :
        ev \in EventNames, tool \in ToolNames, path \in FilePaths}
    \cup {Malformed}

InitDispatch ==
    \E e \in DispatchEnvelopes :
        InitWith([p \in Procs |-> e], {1}, {WindowTicks}, MaxFaults, FALSE, <<>>)

SpecDispatch == InitDispatch /\ [][Next]_vars

\* Two processes whose envelopes take their three identity fields from
\* texts with and without colons, and differ or not in the tool's input;
\* they start at the same or at different times.
IdentityEnvelopes ==
    {Envelope(sid, ev, tool, path, FALSE) :
        sid \in {"s1", "s1:PostToolUse"},
        ev \in {POST_TOOL_USE, "Write"},
        tool \in {WRITE, "Write:", ""},
        path \in {<<"x", ".py">>, <<"x", ".txt">>}}

InitIdentity ==
    \E e1 \in {Envelope("s1", POST_TOOL_USE, WRITE, <<"x", ".py">>, FALSE),
                Envelope("s1:PostToolUse", "Write", "", <<"x", ".py">>, FALSE)} :
    \E e2 \in IdentityEnvelopes :
        InitWith([p \in Procs |-> IF p = 1 THEN e1 ELSE e2],
                 Procs \cap (1..Concurrent), {1}, 0, FALSE, <<>>)

SpecIdentity == InitIdentity /\ [][NextTimed]_vars

\* A registry object as its constructor leaves it, and the calls on it.
InitRegistry ==
    InitWith([p \in Procs |-> WriteEvent], {}, {}, 0, FALSE, <<>>)

SpecRegistry == InitRegistry /\ [][NextRegistry]_vars


\* No process of hooks.py runs.
NoHooks == InitHooks([p \in Procs |-> WriteEvent], {}, {}, 0, FALSE, <<>>)

\* The tokens of the command lines: options the defaults have (one with a
\* value, one repeated, one a flag), one they do not have, and two values.
OverrideTokens ==
    {<<"-", "f">>, <<"-", "-ppa">>, <<"-", "-ignore-config">>, <<"-", "N">>,
     <<"best">>, <<"4">>}

CommandLines ==
    UNION {[1..n -> OverrideTokens] : n \in 0..MaxOverrides}

InitMerge ==
    /\ NoHooks
    /\ NoMonitor
    /\ NoNormalize
    /\ overrides \in CommandLines
    /\ merged = NotCalled

SpecMerge == InitMerge /\ [][MergeOptions]_vars

\* monitor_clipboard, whatever the clipboard holds when it starts.
InitMonitor ==
    /\ NoHooks
    /\ NoMerge
    /\ NoNormalize
    /\ clipboard \in Texts
    /\ monitor_pc = "startup" /\ last_text = <<>>
    /\ reads = <<>> /\ downloads = <<>>

SpecMonitor == InitMonitor /\ [][NextMonitor]_vars

\* The post-processor runs for NumFiles downloaded files, each of them
\* there or not.
InitNormalize ==
    /\ NoHooks
    /\ NoMerge
    /\ NoMonitor
    /\ media_files \in [1..NumFiles -> {"original", "absent"}]
    /\ tmp_files = [i \in 1..NumFiles |-> "none"]
    /\ normalizing = 0
    /\ normalize_pc = "run"
    /\ reports = <<>>

SpecNormalize == InitNormalize /\ [][NextNormalize]_vars

\* ------------------------------------------------------------- claims

\* p and q handle the same logical event.
SameFingerprint(p, q) ==
    /\ p # q
    /\ execution_id[p] # "" /\ execution_id[p] = execution_id[q]

\* Neither process started after the other had ended.
Overlap(p, q) == q \notin done_before[p] /\ p \notin done_before[q]

\* p holds the lock of the lock file it opened.
Holds(p) == lock_file[p] # NoInode /\ <<lock_file[p], p>> \in held

LogWritesOf(p) == {i \in 1..Len(log) : log[i][1] = p}

Dispatched(p) == lookups[p] # <<>> \/ calls[p] # <<>> \/ outputs[p] # <<>>

\* C1: of two concurrent processes with the same fingerprint, the history
\* holding no record of it when they start and no error being injected,
\* exactly one is granted the guard and the other is denied, and the denied
\* one appends no log entry and dispatches nothing.
C1_ExactlyOneGranted ==
    \A p, q \in Procs :
        ( /\ SameFingerprint(p, q) /\ Overlap(p, q)
          /\ pc[p] = "done" /\ pc[q] = "done"
          /\ faults = MaxFaults )
        => \/ /\ is_allowed[p] = "True" /\ is_allowed[q] = "False"
              /\ LogWritesOf(q) = {} /\ ~Dispatched(q)
           \/ /\ is_allowed[q] = "True" /\ is_allowed[p] = "False"
              /\ LogWritesOf(p) = {} /\ ~Dispatched(p)

\* C2: at most one process holds the execution lock of a fingerprint.
C2_AtMostOneHolder ==
    \A p, q \in Procs : SameFingerprint(p, q) => ~(Holds(p) /\ Holds(q))


\* p has left ExecutionGuard.__exit__ or has ended.
Exited(p) == pc[p] \in {"main_exit", "done"}

HoldsAny(p) == \E h \in held : h[2] = p

\* q's non-blocking lock attempt, no error injected, at a moment when a
\* granted process of its fingerprint has exited and no other process of
\* that fingerprint is between its own lock attempt and its exit.
AttemptAfterExit(q) ==
    /\ pc[q] = "flock" /\ pc'[q] # "flock" /\ faults' = faults
    /\ \E p \in Procs :
          SameFingerprint(p, q) /\ is_allowed[p] = "True" /\ Exited(p)
    /\ \A r \in Procs :
          SameFingerprint(r, q) =>
              \/ pc[r] \in {"check", "mkdir", "open", "flock", "done"}
              \/ is_allowed[r] = "True" /\ Exited(r)

C3_Released ==
    \A p \in Procs : is_allowed[p] = "True" /\ Exited(p) => ~HoldsAny(p)

C3_NextAttempt ==
    \A q \in Procs :
        AttemptAfterExit(q) => pc'[q] = "write" /\ <<lock_file[q], q>> \in held'

\* C3: once a granted process has left the guard, by a return, by exit(2),
\* by an exception or by an interruption, it holds no lock, and the next
\* lock attempt for its fingerprint takes the lock.
C3_ReleasedOnEveryPath == []C3_Released /\ [][C3_NextAttempt]_vars

C3_Witness ==
    \E p, q \in Procs :
        /\ SameFingerprint(p, q)
        /\ is_allowed[p] = "True" /\ pc[p] = "done"
        /\ exc[p] = "KeyboardInterrupt"
        /\ is_locked[q] /\ Holds(q)

\* What a process that was not granted the guard has done: nothing.
DidNothing(p) ==
    /\ is_allowed[p] = "False"
    /\ recorded[p] = 0 /\ LogWritesOf(p) = {}
    /\ ~Dispatched(p) /\ commands[p] = <<>>
    /\ exc[p] = "none"
    /\ pc[p] \in {"g_unlock", "main_exit", "done"}
    /\ pc[p] = "done" => exit_code[p] = 0

\* C6: a process whose duplicate check returned True, or whose lock attempt
\* found the lock held, ends with exit code 0 and has appended no history
\* record and no log entry and dispatched nothing.
C6_SkipIsNoOp ==
    \A p \in Procs : denial[p] \in {"duplicate", "locked"} => DidNothing(p)

C6_Witness ==
    \E p \in Procs : denial[p] = "locked" /\ pc[p] = "done" /\ exit_code[p] = 0

GuardErrors == {"mkdir_error", "open_error", "flock_error", "write_error"}

\* C10: a filesystem error while creating the lock directory, opening the
\* lock file, locking it or writing the process info makes __enter__
\* return False; the process does nothing more and ends with exit code 0.
C10_GuardErrorIsDenial ==
    \A p \in Procs : denial[p] \in GuardErrors => DidNothing(p)

C10_Witness ==
    \E p \in Procs :
        denial[p] = "write_error" /\ pc[p] = "done" /\ exit_code[p] = 0

\* p's duplicate check ends in this step.
CheckEnds(p) == pc[p] = "check" /\ pc'[p] # "check"

\* The history holds a record (id, t) with current_time - t less
\* than five seconds.
RecentRecord(id, current_time) ==
    \E i \in 1..Len(history) : \E t \in 0..MaxClock :
        /\ history[i] = HistoryLine(id, t)
        /\ current_time - t < DUPLICATE_WINDOW * TicksPerSecond

C4_CheckStep ==
    \A p \in Procs :
        CheckEnds(p) /\ faults' = faults /\ exc'[p] = "none" =>
            ( denial'[p] = "duplicate"
                <=> history_exists /\ RecentRecord(execution_id[p], timestamp[p]) )

\* C4: the duplicate check of a process returns True if and only if the
\* history holds a record of its fingerprint less than 5 seconds older than
\* its timestamp: 4.9 s after the record the event is suppressed, 5.0 s or
\* 5.1 s after it, it is not.
C4_DuplicateIffRecent == [][C4_CheckStep]_vars

C4_Witness ==
    \E p \in Procs :
        /\ denial[p] = "duplicate"
        /\ history = <<HistoryLine(execution_id[p], 0)>>
        /\ timestamp[p] = (DUPLICATE_WINDOW * TicksPerSecond) - 1

C9_CheckStep ==
    \A p \in Procs :
        CheckEnds(p) =>
            /\ exc'[p] = "none"
            /\ ( \/ ~history_exists
                 \/ ~RecentRecord(execution_id[p], timestamp[p]) )
               => pc'[p] = "mkdir" /\ is_allowed'[p] = "unset"

\* C9: the duplicate check never raises; when the history is missing,
\* cannot be opened or read, or holds no recent record of the fingerprint
\* among lines that are no records, it returns False and the process goes on
\* to the lock attempt.
C9_CheckNeverRaises == [][C9_CheckStep]_vars

\* p was granted the guard and _handle_hook_event has returned or has left
\* through sys.exit.
Completed(p) ==
    /\ is_allowed[p] = "True"
    /\ pc[p] \in {"g_unlock", "g_close", "g_unlink", "main_exit", "done"}
    /\ exc[p] \in {"none", "SystemExit"}

\* The built-in bindings, and the no-op handler for any other name.
BoundHandler(tool_name) ==
    CASE tool_name \in {"Write", "Edit", "MultiEdit", "Read", "NotebookRead",
                        "NotebookEdit"} -> "file_handler"
      [] tool_name = "Bash" -> "bash_handler"
      [] OTHER -> "NoOpHandler"

Capability(hook_event_name) ==
    IF hook_event_name = "PreToolUse" THEN "handle_before" ELSE "handle_after"

NamesTool(e) ==
    /\ e.wellformed
    /\ e.hook_event_name \in {"PreToolUse", "PostToolUse"}
    /\ e.tool_name \notin {"", Absent}

\* C7: a granted process invokes, for a PreToolUse or PostToolUse event
\* with a tool name, the before or after capability of the handler bound to
\* exactly that name (the no-op handler when there is no binding) exactly
\* once, and no other capability of no other handler; Write, Edit,
\* MultiEdit, Read, NotebookRead and NotebookEdit are bound to the one file
\* handler and Bash to the shell handler.
C7_DispatchByExactName ==
    \A p \in Procs :
        LET e == env[p]
            expected == <<BoundHandler(e.tool_name), Capability(e.hook_event_name)>>
        IN  /\ calls[p] # <<>> => NamesTool(e) /\ calls[p] = <<expected>>
            /\ lookups[p] # <<>> => NamesTool(e) /\ lookups[p] = <<e.tool_name>>
            /\ Completed(p) /\ NamesTool(e) =>
                  calls[p] = <<expected>> /\ lookups[p] = <<e.tool_name>>

C7_Witness ==
    \E p \in Procs :
        /\ env[p].hook_event_name = "PostToolUse"
        /\ env[p].tool_name = "Write"
        /\ env[p].file_path = <<"x", ".py">>
        /\ Completed(p) /\ pc[p] = "done"
        /\ calls[p] = << <<"file_handler", "handle_after">> >>

\* C8: dispatching a Notification, Stop or SubagentStop event looks up and
\* invokes no handler, whatever tool name the envelope carries, and runs no
\* command; it performs the action of its kind, once.
C8_NonToolSkipsRegistry ==
    \A p \in Procs :
        env[p].wellformed
        /\ env[p].hook_event_name \in {"Notification", "Stop", "SubagentStop"} =>
            /\ lookups[p] = <<>> /\ calls[p] = <<>> /\ commands[p] = <<>>
            /\ outputs[p] \in {<<>>, <<env[p].hook_event_name>>}
            /\ Completed(p) => outputs[p] = <<env[p].hook_event_name>>

C8_Witness ==
    \E p \in Procs :
        /\ env[p].hook_event_name = "Notification"
        /\ env[p].tool_name = "Write"
        /\ Completed(p) /\ pc[p] = "done"
        /\ outputs[p] = <<"Notification">>

\* Every process handles another logical event.
PairwiseDifferent ==
    \A p, q \in Procs : p # q => ContextId(env[p]) # ContextId(env[q])

\* The entries of the log a process completed.
EntriesOf(p) == {i \in LogWritesOf(p) : log[i][2] \in {"record", "end"}}

\* No write of a process lies between the two writes of a record of
\* another one.
NoFragments ==
    \A i \in 1..Len(log) :
        /\ log[i][2] = "body" /\ i < Len(log) => log[i + 1] = <<log[i][1], "end">>
        /\ log[i][2] = "end" => i > 1 /\ log[i - 1] = <<log[i][1], "body">>

\* C5: when processes with pairwise different fingerprints append to the
\* log concurrently, no entry holds fragments of another process's record,
\* and when all have ended the log holds one complete entry of each.
C5_LogEntriesWhole ==
    PairwiseDifferent =>
        /\ NoFragments
        /\ (\A p \in Procs : pc[p] = "done") =>
              \A p \in Procs : Cardinality(EntriesOf(p)) = 1

\* The context of p has been built from a parsed envelope.
HasContext(p) == env[p].wellformed /\ pc[p] \notin {"absent", "start"}

SameIdentityFields(e1, e2) ==
    /\ e1.session_id = e2.session_id
    /\ e1.hook_event_name = e2.hook_event_name
    /\ e1.tool_name = e2.tool_name

\* C11: two envelopes with the same session_id, event name and tool name
\* get the same fingerprint, whatever the times and the processes that
\* read them and whatever else they carry.
C11_IdentityOfThreeFields ==
    \A p, q \in Procs :
        HasContext(p) /\ HasContext(q) /\ SameIdentityFields(env[p], env[q])
            => execution_id[p] = execution_id[q]

C11_Witness ==
    \E p, q \in Procs :
        /\ p # q /\ HasContext(p) /\ HasContext(q)
        /\ SameIdentityFields(env[p], env[q])
        /\ env[p].file_path # env[q].file_path
        /\ timestamp[p] # timestamp[q]
        /\ execution_id[p] = execution_id[q]

\* C12: two envelopes that differ in session_id, event name or tool name
\* get different fingerprints, for all texts of the three fields.
C12_DifferentFieldsDifferentIds ==
    \A p, q \in Procs :
        HasContext(p) /\ HasContext(q) /\ ~SameIdentityFields(env[p], env[q])
            => execution_id[p] # execution_id[q]

\* C13 as stated: every run that ends, ends with exit code 0 or 2.
C13_ExitZeroOrTwo ==
    \A p \in Procs : pc[p] = "done" => exit_code[p] \in {0, 2}

\* C13, amended: a run that ends and was not interrupted ends with exit
\* code 0, after a dispatch that did not fail or a skip, or with exit code
\* 2, after input that is no JSON, an exception at any stage or a failed
\* command; a run ended by KeyboardInterrupt, which main raises again, ends
\* with the status of an interrupted process.
C13_ExitStatus ==
    \A p \in Procs : pc[p] = "done" =>
        /\ exc[p] = "KeyboardInterrupt" <=> exit_code[p] = 130
        /\ exc[p] \in {"SystemExit", "Exception"} <=> exit_code[p] = 2
        /\ exc[p] = "none" <=> exit_code[p] = 0
        /\ ~env[p].wellformed => exit_code[p] = 2
        /\ is_allowed[p] = "False" => exit_code[p] = 0
        /\ exit_code[p] = 0 => is_allowed[p] = "False" \/ Completed(p)

C13_Witness ==
    \E p \in Procs :
        /\ pc[p] = "done" /\ is_allowed[p] = "True"
        /\ exc[p] = "Exception" /\ exit_code[p] = 2

\* The i-th command p started did not return zero.
FailedCommand(p, i) == commands[p][i][2] = "nonzero"

\* C14: when the lint or the format command of the file handler's after
\* action returns non-zero, the process ends with exit code 2, the command
\* is not run again and no later command is run: after a lint failure the
\* format command is never started.
C14_FailedCommandIsFatal ==
    \A p \in Procs : \A i \in 1..Len(commands[p]) :
        FailedCommand(p, i) =>
            /\ i = Len(commands[p])
            /\ \A j \in 1..(i - 1) : commands[p][j][1] # commands[p][i][1]
            /\ commands[p][i][1] = "lint" => commands[p] = << <<"lint", "nonzero">> >>
            /\ exc[p] = "SystemExit"
            /\ pc[p] = "done" => exit_code[p] = 2

C14_Witness ==
    \E p \in Procs :
        /\ commands[p] = << <<"lint", "nonzero">> >>
        /\ pc[p] = "done" /\ exit_code[p] = 2

\* The handler of the last register call for tool_name among the first n,
\* the built-in binding when there is none, the no-op handler otherwise.
LastRegistered(tool_name, n) ==
    LET named == {i \in 1..n : registrations[i][1] = tool_name}
    IN  IF named = {} THEN BoundHandler(tool_name)
        ELSE registrations[CHOOSE i \in named : \A j \in named : j <= i][2]

\* C15: after any sequence of register calls a lookup of a tool name
\* returns the handler of the most recent register call for that name, its
\* built-in binding if no call named it, and a no-op handler if it has
\* none; a register call changes the binding of no other name.
C15_LastRegistrationWins ==
    /\ looked_up # <<>> =>
          looked_up[2] = LastRegistered(looked_up[1], looked_up[3])
    /\ \A t \in RegistryNames \cup {READ, "Other"} :
          GetHandler(registry, t) = LastRegistered(t, Len(registrations))

C15_Witness ==
    /\ registrations = << <<"Write", "handler1">>, <<"Task", "handler1">>,
                          <<"Write", "handler2">> >>
    /\ looked_up = <<"Write", "handler2", 3>>

\* The envelope names none of the five event kinds, or a tool event with
\* no tool name.
NoDispatchTarget(e) ==
    /\ e.wellformed
    /\ ~NamesTool(e)
    /\ e.hook_event_name \notin {"Notification", "Stop", "SubagentStop"}

\* C16: for a granted process whose event kind is none of the five, or is
\* PreToolUse or PostToolUse with an empty or missing tool name, dispatch
\* calls no handler, prints nothing and runs no command, and the process
\* ends with exit code 0.
C16_UnknownEventIsNoOp ==
    \A p \in Procs :
        NoDispatchTarget(env[p]) =>
            /\ ~Dispatched(p) /\ commands[p] = <<>>
            /\ Completed(p) => exc[p] = "none"
            /\ Completed(p) /\ pc[p] = "done" => exit_code[p] = 0

C16_Witness ==
    \E p \in Procs :
        /\ env[p].hook_event_name = "PostToolUse" /\ env[p].tool_name = ""
        /\ env[p].file_path = <<"x", ".py">>
        /\ Completed(p) /\ pc[p] = "done" /\ exit_code[p] = 0

\* The steps of p, told by what they change.
LockStep(p) == <<lock_file[p], p>> \notin held /\ <<lock_file'[p], p>> \in held'
HistoryStep(p) == recorded'[p] # recorded[p]
LogStep(p) == LogWritesOf(p)' # LogWritesOf(p)
DispatchStep(p) ==
    /\ pc[p] = "dispatch" /\ pc'[p] # "dispatch"
    /\ exc'[p] \in {"none", "SystemExit"}
ReleaseStep(p) == is_locked[p] /\ Holds(p) /\ <<lock_file[p], p>> \notin held'

\* p holds the guard __enter__ granted it.
HoldsGuard(p) == is_allowed[p] = "True" /\ is_locked[p] /\ Holds(p)

C17_Step ==
    \A p \in Procs :
        /\ LockStep(p) =>
              /\ pc[p] = "flock" /\ denial[p] = "none"
              /\ recorded[p] = 0 /\ LogWritesOf(p) = {} /\ ~Dispatched(p)
        /\ HistoryStep(p) =>
              HoldsGuard(p) /\ recorded[p] = 0 /\ LogWritesOf(p) = {}
              /\ ~Dispatched(p)
        /\ LogStep(p) =>
              /\ HoldsGuard(p) /\ EntriesOf(p) = {} /\ ~Dispatched(p)
              /\ faults = MaxFaults => recorded[p] = 1
        /\ DispatchStep(p) =>
              /\ HoldsGuard(p) /\ HoldsGuard(p)' /\ ~Dispatched(p)
              /\ Cardinality(EntriesOf(p)) = 1
              /\ faults = MaxFaults => recorded[p] = 1
        /\ ReleaseStep(p) =>
              /\ pc[p] = "g_unlock"
              /\ exc[p] = "none" =>
                    Cardinality(EntriesOf(p)) = 1 /\ pc'[p] # "dispatch"
              /\ recorded'[p] = recorded[p] /\ log' = log
        /\ ~HoldsGuard(p) /\ ~HoldsGuard(p)' =>
              /\ recorded'[p] = recorded[p] /\ LogWritesOf(p)' = LogWritesOf(p)
              /\ calls'[p] = calls[p] /\ outputs'[p] = outputs[p]

\* C17: in every run the duplicate check, the lock attempt, the history
\* append, the log append and the dispatch occur in this order; the last
\* three occur only while the process holds its guard, and the guard is
\* released only after dispatch has ended or a step has failed.
C17_StepsInOrder == [][C17_Step]_vars

C17_Witness ==
    \E p \in Procs :
        /\ pc[p] = "done" /\ is_allowed[p] = "True" /\ exc[p] = "none"
        /\ recorded[p] = 1 /\ Cardinality(EntriesOf(p)) = 1
        /\ calls[p] = << <<"file_handler", "handle_after">> >>
        /\ ~HoldsAny(p)

\* q is at its lock attempt, or was denied by it and has not ended.
AtOrPastAttempt(q) ==
    \/ pc[q] = "flock"
    \/ denial[q] = "locked" /\ pc[q] # "done"

C18_CanStep == \A q \in Procs : AtOrPastAttempt(q) => ENABLED Run(q)

C18_Attempt ==
    \A q \in Procs :
        pc[q] = "flock" /\ pc'[q] # "flock" /\ Locked(lock_file[q], q) =>
            /\ is_allowed'[q] = "False" /\ pc'[q] = "g_unlock"
            /\ held' = held
            /\ \A p \in Procs \ {q} : pc'[p] = pc[p]

\* C18: a process never waits on the execution guard: at its lock attempt
\* and after a denial it can always take its next step, whatever the holder
\* does, and an attempt that finds the lock held is denied at once.
C18_NeverWaits == []C18_CanStep /\ [][C18_Attempt]_vars

C18_Witness ==
    \E p, q \in Procs :
        /\ SameFingerprint(p, q)
        /\ denial[q] = "locked" /\ pc[q] = "done"
        /\ HoldsGuard(p) /\ pc[p] = "dispatch"

\* An error is injected into the step p takes at the place `at`.
FailsAt(p, at) == pc[p] = at /\ pc'[p] # at /\ faults' < faults

\* The places of the log append and of the dispatch where an error can be
\* injected.
LogAndDispatchPlaces ==
    {"log_mkdir", "fl_open", "log_open", "fl_close", "fl_unlink", "dispatch"}

\* An error is propagating in p.
Failing(p) == exc[p] \in {"Exception", "SystemExit"}

\* While an error propagates no later step runs, the error is not caught
\* and no operation is retried, and the process ends with exit code 2.
C19_NoLaterStep ==
    \A p \in Procs :
        Failing(p) =>
            /\ exc'[p] = exc[p]
            /\ recorded'[p] = recorded[p] /\ LogWritesOf(p)' = LogWritesOf(p)
            /\ lookups'[p] = lookups[p] /\ calls'[p] = calls[p]
            /\ outputs'[p] = outputs[p] /\ commands'[p] = commands[p]
            /\ pc'[p] \in {"fl_unlock", "fl_close", "fl_unlink", "g_unlock",
                            "g_close", "g_unlink", "main_exit", "done"}
            /\ pc'[p] = "done" => exit_code'[p] = 2

C19_Propagates(places) ==
    \A p \in Procs : \A at \in places :
        FailsAt(p, at) => exc'[p] # "none" /\ pc'[p] # "dispatch"

\* C19 as stated: an error while appending the history record, while
\* appending the log entry or while dispatching propagates to main and ends
\* the process with exit code 2, no later step runs and nothing is retried.
C19_AllErrorsPropagate ==
    [][C19_NoLaterStep /\ C19_Propagates(LogAndDispatchPlaces \cup {"record"})]_vars

C19_HistoryErrorIgnored ==
    \A p \in Procs :
        FailsAt(p, "record") /\ exc'[p] # "KeyboardInterrupt" =>
            /\ exc'[p] = "none" /\ pc'[p] = "log_mkdir"
            /\ recorded'[p] = recorded[p] /\ history' = history

\* C19, amended: an error while appending the log entry or while
\* dispatching propagates to main and ends the process with exit code 2, no
\* later step runs and nothing is retried; an OSError while appending the
\* history record is ignored, the record is not written and not retried and
\* the run goes on with the log append.
C19_ErrorsPropagateButHistory ==
    [][C19_NoLaterStep /\ C19_Propagates(LogAndDispatchPlaces)
       /\ C19_HistoryErrorIgnored]_vars

C19_Witness ==
    \E p \in Procs :
        /\ pc[p] = "done" /\ is_allowed[p] = "True" /\ exc[p] = "Exception"
        /\ recorded[p] = 1 /\ LogWritesOf(p) = {} /\ ~Dispatched(p)
        /\ exit_code[p] = 2

\* The lock file of q's fingerprint, NoInode when the name does not exist.
LockFileOf(q) == dir[LockFileName(execution_id[q])]

\* q takes the step at the place `at` and no error is injected.
StepsAt(q, at) == pc[q] = at /\ pc'[q] # at /\ faults' = faults

C20_Step ==
    \A q \in Procs :
        /\ StepsAt(q, "open") /\ LockFileOf(q) # NoInode =>
              pc'[q] = "flock" /\ lock_file'[q] = LockFileOf(q)
        /\ StepsAt(q, "flock") /\ ~Locked(lock_file[q], q) =>
              pc'[q] = "write" /\ <<lock_file[q], q>> \in held'
        /\ StepsAt(q, "write") => is_allowed'[q] = "True"

\* C20: a lock file that exists does not deny an acquisition by itself:
\* when the file of the fingerprint is there, left by an earlier process,
\* no process holds its lock, the duplicate check has passed and no error
\* occurs, the attempt opens the file, takes the lock and is granted.
C20_StaleFileDoesNotDeny == [][C20_Step]_vars

C20_Witness ==
    \E p, q \in Procs :
        /\ p \in done_before[q]
        /\ is_allowed[q] = "True"
        /\ lock_file[q] = <<LockFileName(execution_id[q]), p>>

IsPrefix(s, t) == Len(s) <= Len(t) /\ SubSeq(t, 1, Len(s)) = s

C21_Step ==
    /\ IsPrefix(history, history')
    /\ IsPrefix(log, log')
    /\ history_exists => history_exists'

\* C21: the history file and the log file are append-only: every step of
\* every process leaves what they hold as a prefix of what they hold
\* afterwards; nothing is deleted, rewritten or truncated.
C21_AppendOnly == [][C21_Step]_vars

C21_Witness ==
    /\ Len(history) = 2 /\ history[1] # history[2]
    /\ Len(log) >= 3
    /\ \A p \in Procs : pc[p] \in {"done", "absent"}

\* p is between the return of FileLock.__enter__ and the unlock of
\* FileLock.__exit__: it holds the lock of the log lock file it opened.
InLogSection(p) == fl_file[p] # NoInode /\ <<fl_file[p], p>> \in held

\* C22: at most one process is inside the critical section of the log
\* write, for any interleaving of the open, lock, unlock, close and unlink
\* of hooks.log.lock.
C22_OneInLogSection ==
    \A p, q \in Procs : InLogSection(p) /\ InLogSection(q) => p = q

\* Some process has not ended and no process can take a step.
Deadlocked ==
    /\ \E p \in Procs : pc[p] \notin {"done", "absent"}
    /\ \A p \in Procs : ~ENABLED Run(p)

\* Every process has ended and every granted one has its log entry.
AllEndedAndLogged ==
    \A p \in Procs :
        /\ pc[p] \in {"done", "absent"}
        /\ is_allowed[p] = "True" => Cardinality(EntriesOf(p)) = 1

\* C23: under fair scheduling every process that was granted its guard
\* gets the log lock and appends its log entry and every process ends; no
\* reachable state is a deadlock between the guard locks and the log lock.
C23_EveryProcessEnds == [](~Deadlocked) /\ <>[]AllEndedAndLogged

C23_Witness ==
    \E p, q \in Procs :
        /\ p # q
        /\ pc[p] = "fl_flock" /\ Locked(fl_file[p], p)
        /\ InLogSection(q) /\ HoldsGuard(p) /\ HoldsGuard(q)

\* The step in which p gets the log lock.
LogLockStep(p) == ~InLogSection(p) /\ InLogSection(p)'

\* The locks p holds, as the files they are on.
LocksOf(p) == {l \in held : l[2] = p}

C24_Step ==
    \A p \in Procs :
        /\ LogLockStep(p) => HoldsGuard(p) /\ ~Dispatched(p)
        /\ pc[p] = "dispatch" =>
              /\ ~InLogSection(p)
              /\ LocksOf(p) \subseteq {<<lock_file[p], p>>}
        /\ Dispatched(p)' # Dispatched(p) => LocksOf(p) \subseteq {<<lock_file[p], p>>}

\* C24: the log lock is taken only by a process that holds its execution
\* guard and has not dispatched, and a process that is at its dispatch holds
\* no lock but its guard, so it keeps no other process from the log lock.
C24_LogLockBeforeDispatch == [][C24_Step]_vars

C24_Witness ==
    \E p, q \in Procs :
        /\ p # q
        /\ pc[p] = "dispatch" /\ Cardinality(EntriesOf(p)) = 1
        /\ InLogSection(q) /\ HoldsGuard(q)

\* The shared files and what was dispatched: the lock files by name, inode,
\* content and holder, the history, the log, the handler calls and commands.
SharedState == <<dir, held, content, history_exists, history, log, dispatchVars>>

C25_Step ==
    \A p \in Procs :
        ~env[p].wellformed =>
            /\ pc'[p] # pc[p] => SharedState' = SharedState
            /\ lock_file'[p] = NoInode /\ fl_file'[p] = NoInode
            /\ is_allowed'[p] = "unset" /\ recorded'[p] = 0
            /\ pc'[p] = "done" => exit_code'[p] = EXIT_FATAL

\* C25: a process whose input is not well-formed JSON ends with exit code 2
\* and none of its steps creates, opens or changes a lock file, adds to the
\* history or the log, or dispatches anything.
C25_MalformedInputTouchesNothing == [][C25_Step]_vars

C25_Witness ==
    \E p \in Procs :
        /\ ~env[p].wellformed /\ pc[p] = "done" /\ exit_code[p] = EXIT_FATAL
        /\ \A n \in DOMAIN dir : dir[n] = NoInode
        /\ held = {} /\ ~history_exists /\ history = <<>> /\ log = <<>>
        /\ ~Dispatched(p)

ReleasePlaces == {"g_unlock", "g_close", "g_unlink"}

\* p has ended and the lock file of its guard is still there: the unlock,
\* the close or the deletion failed.
ReleaseFailed(p) ==
    /\ pc[p] = "done" /\ is_allowed[p] = "True" /\ is_locked[p]
    /\ dir[LockFileName(execution_id[p])] # NoInode
    /\ \A q \in Procs \ {p} : pc[q] # "absent" => ~SameFingerprint(p, q)

C26_Step ==
    \A p \in Procs :
        /\ pc[p] \in ReleasePlaces /\ pc'[p] # pc[p] =>
              /\ exc'[p] = exc[p]
              /\ pc'[p] \in ReleasePlaces \cup {"main_exit"}
        /\ pc[p] = "main_exit" /\ pc'[p] = "done" =>
              /\ Completed(p) /\ exc[p] = "none" => exit_code'[p] = 0
              /\ is_allowed[p] = "False" => exit_code'[p] = 0
              /\ (\E i \in DOMAIN commands[p] : ~(commands[p][i][2] = "zero"))
                    => exit_code'[p] = EXIT_FATAL

\* C26: an error of the unlock, the close or the deletion in the guard's
\* release raises nothing out of the guard, and the process ends with the
\* exit code the guarded block set: 0 after a dispatch that returned, 2
\* after a command failed.
C26_ReleaseErrorSwallowed == [][C26_Step]_vars

C26_Witness ==
    \E p \in Procs :
        /\ ReleaseFailed(p) /\ faults = 0
        /\ \E i \in DOMAIN commands[p] : FailedCommand(p, i)
        /\ exit_code[p] = EXIT_FATAL

\* q reads the history when the record of p, an event of the same session,
\* kind and tool, is in it, q having come no earlier than p and less than
\* the window after it.
ChecksAfterAccepted(p, q) ==
    /\ p # q
    /\ env[p].wellformed /\ env[q].wellformed
    /\ SameIdentityFields(env[p], env[q])
    /\ is_allowed[p] = "True" /\ recorded[p] = 1
    /\ pc[q] = "check" /\ pc'[q] # "check"
    /\ timestamp[q] >= timestamp[p]
    /\ timestamp[q] - timestamp[p] < WindowTicks

C27_Step ==
    \A q \in Procs :
        /\ (\E p \in Procs : ChecksAfterAccepted(p, q)) =>
              is_allowed'[q] = "False" /\ denial'[q] = "duplicate"
        /\ denial[q] = "duplicate" =>
              /\ ~Dispatched(q)' /\ commands'[q] = <<>>
              /\ recorded'[q] = 0 /\ LogWritesOf(q)' = {}

\* C27: an event of the same session, kind and tool as an accepted one,
\* whatever else the two carry, that comes less than 5 s after it is
\* suppressed and its handler is not run.
C27_PayloadDoesNotCount == [][C27_Step]_vars

C27_Witness ==
    \E p, q \in Procs :
        /\ SameIdentityFields(env[p], env[q])
        /\ env[p].file_path # env[q].file_path
        /\ Completed(p) /\ commands[p] # <<>>
        /\ timestamp[q] > timestamp[p]
        /\ pc[q] = "done" /\ denial[q] = "duplicate" /\ exit_code[q] = 0

\* p was granted, wrote its history record, and a command of its handler
\* failed: p has ended with exit code 2.
FailedInDispatch(p) ==
    /\ pc[p] = "done" /\ exit_code[p] = EXIT_FATAL
    /\ is_allowed[p] = "True" /\ recorded[p] = 1
    /\ \E i \in DOMAIN commands[p] : commands[p][i][2] # "zero"

\* q, of p's fingerprint and having come less than the window after p,
\* ends its duplicate check, no read error being injected.
ChecksAfterFailure(p, q) ==
    /\ FailedInDispatch(p)
    /\ SameFingerprint(p, q)
    /\ pc[q] = "check" /\ pc'[q] # "check" /\ faults' = faults
    /\ timestamp[q] >= timestamp[p]
    /\ timestamp[q] - timestamp[p] < WindowTicks

C28_Step ==
    \A p \in Procs :
        /\ FailedInDispatch(p) =>
              /\ \E i \in DOMAIN history :
                     history[i] = HistoryLine(execution_id[p], timestamp[p])
              /\ Cardinality(EntriesOf(p)) = 1
        /\ \A q \in Procs :
              ChecksAfterFailure(p, q) =>
                  /\ is_allowed'[q] = "False" /\ denial'[q] = "duplicate"
                  /\ pc'[q] = "g_unlock"

\* C28: the history record and the log entry of a process whose handler
\* ended it with exit code 2 stay, and an event of the same fingerprint
\* that comes less than 5 s after that process is suppressed.
C28_FailedDispatchStillCounts == [][C28_Step]_vars

C28_Witness ==
    \E p, q \in Procs :
        /\ FailedInDispatch(p) /\ SameFingerprint(p, q)
        /\ p \in done_before[q]
        /\ timestamp[q] = timestamp[p] + WindowTicks - 1
        /\ pc[q] = "done" /\ denial[q] = "duplicate" /\ ~Dispatched(q)

\* C29: while a process holds the guard it was granted, the lock file it
\* holds has its process id and timestamp as content, whatever lock attempts
\* other processes make and lose.
C29_HolderInfoInLockFile ==
    \A p \in Procs :
        HoldsGuard(p) => content[lock_file[p]] = ProcessInfo(p, timestamp[p])

\* The file handler's handle_after has run for p.
FileHandlerAfter(p) == calls[p] = << <<"file_handler", "handle_after">> >>

\* A Write, Edit or MultiEdit of a file whose path ends in .py or .pyi.
PythonFileWritten(e) ==
    /\ e.tool_name \in {WRITE, EDIT, MULTI_EDIT}
    /\ e.file_path # <<>>
    /\ e.file_path[Len(e.file_path)] \in {".py", ".pyi"}

\* C30: the file handler's after action starts commands exactly for a Write,
\* Edit or MultiEdit of a path that ends in .py or .pyi: the lint command
\* first and, the lint having succeeded, the format command second, each
\* once; no other call of a handler and no other event starts a command.
C30_RuffOnlyForPythonWrites ==
    \A p \in Procs :
        /\ commands[p] # <<>> => FileHandlerAfter(p)
        /\ FileHandlerAfter(p) =>
              /\ commands[p] # <<>> <=> PythonFileWritten(env[p])
              /\ Len(commands[p]) <= 2
              /\ \A i \in DOMAIN commands[p] :
                     commands[p][i][1] = IF i = 1 THEN "lint" ELSE "format"
              /\ PythonFileWritten(env[p]) /\ exc[p] = "none" =>
                     commands[p] = << <<"lint", "zero">>, <<"format", "zero">> >>

C30_Witness ==
    \E p \in Procs :
        /\ env[p].tool_name = MULTI_EDIT /\ env[p].file_path = <<"x", ".pyi">>
        /\ FileHandlerAfter(p) /\ pc[p] = "done" /\ exit_code[p] = 0
        /\ commands[p] = << <<"lint", "zero">>, <<"format", "zero">> >>

\* The options that can be named: those of the defaults and of the command
\* lines.
OptionNames ==
    {t \in OverrideTokens : StartsWithDash(t)}
        \cup {YT_DLP_OPTIONS[i] : i \in {j \in DOMAIN YT_DLP_OPTIONS :
                                            StartsWithDash(YT_DLP_OPTIONS[j])}}

\* In an option list: the places where `name` stands followed by a value,
\* and whether it stands somewhere with no value after it.
ValuePlaces(options, name) ==
    {i \in DOMAIN options :
        /\ options[i] = name
        /\ i + 1 \in DOMAIN options /\ ~StartsWithDash(options[i + 1])}

Bare(options, name) ==
    \E i \in DOMAIN options :
        /\ options[i] = name
        /\ i + 1 \in DOMAIN options => StartsWithDash(options[i + 1])

\* The values `name` is given in the list, in order.
RECURSIVE ValuesFrom(_, _, _)
ValuesFrom(options, name, i) ==
    IF i > Len(options) THEN <<>>
    ELSE (IF i \in ValuePlaces(options, name) THEN <<options[i + 1]>> ELSE <<>>)
         \o ValuesFrom(options, name, i + 1)

ValuesOf(options, name) == ValuesFrom(options, name, 1)

\* What the merge is to do with one option.
MergedAsDescribed(name) ==
    LET given == ValuesOf(overrides, name)
        bare == Bare(overrides, name)
        result == merged.options
    IN  CASE given # <<>> /\ ~bare ->
                 ValuesOf(result, name) = given /\ ~Bare(result, name)
          [] given = <<>> /\ bare ->
                 IF ValuesOf(YT_DLP_OPTIONS, name) # <<>> \/ Bare(YT_DLP_OPTIONS, name)
                 THEN ValuesOf(result, name) = <<>> /\ ~Bare(result, name)
                 ELSE ValuesOf(result, name) = <<>> /\ Bare(result, name)
          [] given = <<>> /\ ~bare ->
                 /\ ValuesOf(result, name) = ValuesOf(YT_DLP_OPTIONS, name)
                 /\ Bare(result, name) = Bare(YT_DLP_OPTIONS, name)
          [] OTHER -> TRUE

\* C33: merge_yt_dlp_options(overrides) returns the default options with
\* the values of every option given with values replaced by the given ones,
\* every option given without a value taken out if the defaults have it and
\* added if not, and every option not named kept with all its values.
C33_MergeAsDescribed ==
    merged.outcome # "not_called" =>
        /\ merged.outcome = "returned"
        /\ \A name \in OptionNames : MergedAsDescribed(name)
        /\ \A i \in DOMAIN merged.options :
               StartsWithDash(merged.options[i]) => merged.options[i] \in OptionNames

\* The same for the calls that return.
C33_MergeWhenReturned ==
    merged.outcome = "returned" =>
        /\ \A name \in OptionNames : MergedAsDescribed(name)
        /\ \A i \in DOMAIN merged.options :
               StartsWithDash(merged.options[i]) => merged.options[i] \in OptionNames

\* The texts of Texts that are http(s) URLs with a host.
HttpUrls ==
    { <<"http", ":", "//", "a.example", "/", "v">>,
      <<"HTTPS", ":", "//", "b.example">> }

\* The reads before the i-th that returned a text, and the text the last
\* of them returned.
ReadsBefore(i) == {j \in 1..(i - 1) : reads[j].ok}

LastObserved(i) ==
    IF ReadsBefore(i) = {} THEN <<>>
    ELSE reads[CHOOSE j \in ReadsBefore(i) : \A k \in ReadsBefore(i) : k <= j].text

\* The i-th read is a poll that read a URL other than the last text read.
NewUrl(i) ==
    /\ i >= 2 /\ reads[i].ok
    /\ reads[i].text # LastObserved(i)
    /\ reads[i].text \in HttpUrls

C32_ReplacedOnlyOnSuccess ==
    \A i \in DOMAIN reports :
        /\ tmp_files[i] = "none"
        /\ reports[i] = "completed" => media_files[i] = "normalized"
        /\ reports[i] = "missing" => media_files[i] = "absent"
        /\ reports[i] \in {"no_tmp", "failed", "raised"} => media_files[i] = "original"

====
